---- MODULE Spec2Model ----
(***************************************************************************)
(* A model of py-smartdc: the DataCenter session and its request           *)
(* primitive (smartdc/datacenter.py), the listing accessors built on it,   *)
(* and the Machine proxy (smartdc/machine.py).                             *)
(*                                                                         *)
(* The specifications of the module, one per part of the library:           *)
(*   Spec          DataCenter.__init__ and DataCenter.request              *)
(*   SpecMe        DataCenter.me and the session's login                   *)
(*   SpecSession   constructing sessions, DataCenter.datacenter            *)
(*   SpecListing   DataCenter.machines / packages / images                 *)
(*   SpecLookup    DataCenter.dataset / package / num_machines / networks  *)
(*   SpecMachine   Machine.__init__ / _save / refresh                      *)
(*   SpecMetadata  Machine.get_metadata and the metadata deletes           *)
(*   SpecPoll      Machine.status / poll_until                             *)
(*   SpecPollFair  poll_until under the scheduling of its one thread       *)
(*   SpecPollWhile Machine.poll_while                                      *)
(*   SpecCreate    DataCenter.create_machine                               *)
(*   SpecBootScript   Machine.set_boot_script / delete_boot_script         *)
(*   SpecAuthenticate DataCenter.authenticate                              *)
(*   SpecShared    requests on a session and the sessions derived from it  *)
(*   SpecRace      two callers inside DataCenter.request                   *)
(*   SpecMachineId the Machine's id and request paths                      *)
(* Each keeps the variables of the other parts at their initial values.    *)
(***************************************************************************)
EXTENDS Integers, Sequences, FiniteSets, TLC

VARIABLES
    init_args,  \* the key_id, secret and allow_agent given to DataCenter.__init__
    auth,       \* per session: the signer of the HTTPSignatureAuth its
                \* constructor made (unset where it made none)
    call,       \* per caller: the frame of its DataCenter.request call
    lst,        \* the frame of the running listing accessor call
    server,     \* what the server holds: resource count and page size
    machine,    \* the Machine proxy's cached attributes
    mcall,      \* the Machine's last fetch: its outcome and the record last saved
    poll,       \* the frame of the running Machine.poll_until call
    sessions,   \* the DataCenter objects built so far, in order of construction
    DEFAULT_HEADERS,  \* the module-level dict every session's default_headers names
    KNOWN_LOCATIONS,  \* the module-level dict every session's known_locations names
    mop,        \* the frame of the running Machine metadata call
    me_log,     \* history: the logins the me() calls have fetched, in order
    auth_calls  \* the authenticate() calls so far, each with the credential
                \* object it made

vars == <<init_args, auth, call, lst, server, machine, mcall, poll,
          sessions, DEFAULT_HEADERS, KNOWN_LOCATIONS, mop, me_log, auth_calls>>

-----------------------------------------------------------------------------
(* Python values. A value carries its type, so that None, 0, '' and False  *)
(* stay different values that are all falsy.                               *)

NoneV == [t |-> "none", v |-> 0]
IntV(n) == [t |-> "int", v |-> n]
StrV(s) == [t |-> "str", v |-> s]
BoolV(b) == [t |-> "bool", v |-> b]
DictV(f) == [t |-> "dict", v |-> f]
ListV(l) == [t |-> "list", v |-> l]

\* Python's truth test, as `if x:` applies it.
Truthy(x) ==
    CASE x.t = "none" -> FALSE
      [] x.t = "int"  -> x.v # 0
      [] x.t = "str"  -> x.v # ""
      [] x.t = "bool" -> x.v
      [] x.t = "dict" -> DOMAIN x.v # {}
      [] x.t = "list" -> x.v # <<>>

\* dict.get(k, default)
Get(d, k, default) == IF k \in DOMAIN d THEN d[k] ELSE default

\* A dict with one more item (d[k] = v).
Put(d, k, v) == [x \in DOMAIN d \cup {k} |-> IF x = k THEN v ELSE d[x]]

\* dict.update(e): the items of e win.
Update(d, e) == [x \in DOMAIN d \cup DOMAIN e |-> IF x \in DOMAIN e THEN e[x] ELSE d[x]]

\* A dict without key k (dict.pop's effect on the dict).
Without(d, k) == [x \in DOMAIN d \ {k} |-> d[x]]

EmptyDict == <<>>

-----------------------------------------------------------------------------
(* The credential: HTTPSignatureAuth and its signer.                       *)

\* The most keys the ssh agent holds.
MaxAgentKeys == 3

\* self.auth = None
NoAuth == [present |-> FALSE, agent_key |-> 0, keys |-> <<>>]

\* The signer of HTTPSignatureAuth(key_id, secret, allow_agent) when the agent
\* holds the keys 1..n: the first agent key is the active one, the others wait
\* in _keys; without an agent key the file-based secret signs (agent_key 0).
HTTPSignatureAuth(allow_agent, n) ==
    IF allow_agent /\ n > 0
    THEN [present |-> TRUE, agent_key |-> 1, keys |-> [i \in 1..(n - 1) |-> i + 1]]
    ELSE [present |-> TRUE, agent_key |-> 0, keys |-> <<>>]

\* signer.swap_keys(): the next agent key becomes the active one; when none is
\* left the signer falls back to the file-based secret.
swap_keys(a) ==
    IF a.keys # <<>>
    THEN [a EXCEPT !.agent_key = Head(a.keys), !.keys = Tail(a.keys)]
    ELSE [a EXCEPT !.agent_key = 0]

\* What signs a request dispatched with auth=a.
SignedBy(a) ==
    IF ~a.present THEN [src |-> "unsigned", key |-> 0]
    ELSE IF a.agent_key # 0 THEN [src |-> "agent", key |-> a.agent_key]
    ELSE [src |-> "file", key |-> 0]

-----------------------------------------------------------------------------
(* DataCenter.__init__                                                     *)

KeyIds == {NoneV, StrV(""), StrV("kid")}
Secrets == {NoneV, StrV(""), StrV("~/.ssh/id_rsa")}

InitAuth_KeyIdOnly(key_id, secret, allow_agent, n) ==
    IF Truthy(key_id) THEN HTTPSignatureAuth(allow_agent, n) ELSE NoAuth

\* if key_id and secret: self.auth = HTTPSignatureAuth(...) else: self.auth = None
InitAuth(key_id, secret, allow_agent, n) ==
    IF Truthy(key_id) /\ Truthy(secret) THEN HTTPSignatureAuth(allow_agent, n) ELSE NoAuth

\* DEFAULT_LOCATION, and KNOWN_LOCATIONS as the module is imported (the keys;
\* the URLs they map to play no part here).
DEFAULT_LOCATION == "us-west-1"
ImportedLocations == {"us-east-1", "us-west-1", "us-sw-1", "eu-ams-1"}

\* DEFAULT_HEADERS as the module is imported.
ImportedHeaders ==
    [h \in {"Accept", "Content-Type", "User-Agent"} |->
        CASE h = "Accept"       -> "application/json"
          [] h = "Content-Type" -> "application/json; charset=UTF-8"
          [] h = "User-Agent"   -> "py-smartdc"]

\* The classes of session and their API_VERSION attribute.
Classes == {"DataCenter", "LegacyDataCenter"}
API_VERSION(cls) == IF cls = "DataCenter" THEN "7.0" ELSE "~6.5"

\* The logins and headers given to a constructor.
Logins == {NoneV, StrV(""), StrV("my"), StrV("alice")}
HeaderArgs == {NoneV, DictV(EmptyDict), DictV("X-Trace" :> "on")}

\* What __init__ leaves in the dict named DEFAULT_HEADERS, which it binds to
\* self.default_headers without copying:
\*   self.default_headers = DEFAULT_HEADERS
\*   self.default_headers['X-Api-Version'] = self.API_VERSION
\*   if headers: self.default_headers.update(headers)
InitHeaders(shared, cls, headers) ==
    LET versioned == Put(shared, "X-Api-Version", API_VERSION(cls))
    IN  IF Truthy(headers) THEN Update(versioned, headers.v) ELSE versioned

\* if login: self.login = login else: self.login = 'my'
InitLogin(login) == IF Truthy(login) THEN login ELSE StrV("my")

\* The attributes of a new session. default_headers and known_locations are
\* not among them: they name the two module-level dicts. auth is the identity
\* of the credential object (0 for None). Two fields are history: given is the
\* location argument, parent the session datacenter() derived this one from
\* (0 when the caller constructed it).
Session(cls, location, login, verify, cred, parent) ==
    [cls |-> cls,
     given |-> location,
     location |-> IF Truthy(location) THEN location.v ELSE DEFAULT_LOCATION,
     login |-> InitLogin(login),
     verify |-> verify,
     auth |-> cred,
     parent |-> parent]

\* The most session objects one behaviour builds.
MaxSessions == 2

\* The credential object with a given identity: 0 is None, a constructor's
\* object has the index of the session it was made for, the object of the
\* k-th authenticate() call has identity MaxSessions + k.
Credential(id) ==
    IF id = 0 THEN NoAuth
    ELSE IF id > MaxSessions THEN auth_calls[id - MaxSessions].signer
    ELSE auth[id]

-----------------------------------------------------------------------------
(* DataCenter.request                                                      *)

\* The callers that may be inside request() on the session. Spec runs caller 1
\* alone, one call after the other; caller 2 stays idle there.
Callers == {1, 2}

Statuses == {200, 204, 400, 401, 404, 498, 499, 500}
\* The JSON text of a machine record, as POST machines answers it.
MachineDocument == "{\"id\": \"m1\", \"name\": \"web1\", \"type\": \"smartmachine\", \"state\": \"provisioning\", \"dataset\": \"sdc:base\", \"memory\": 512, \"disk\": 10240, \"ips\": [\"10.0.0.5\", \"165.225.1.1\"], \"created\": \"2013-01-01T00:00:00+00:00\", \"updated\": \"2013-02-01T00:00:00+00:00\"}"

\* Response bodies: none, and JSON documents (an empty object, account records,
\* a machine record).
Contents == {"", "{}", "{\"login\": \"alice\"}", "{\"login\": \"bob\"}",
             "{\"login\": \"my\"}", MachineDocument}

\* The JSON text GET datacenters answers: location keys and their URLs.
LocationsDocument == "{\"us-east-1\": \"https://us-east-1.api.joyentcloud.com\", \"private\": \"https://private.example.com\"}"
ContentTypes == {"application/json", "application/json; charset=UTF-8", "text/plain"}

Responses == [status : Statuses, content : Contents, ctype : ContentTypes]

NoResponse == [status |-> 0, content |-> "", ctype |-> ""]
NoResult == [kind |-> "none", status |-> 0, body |-> NoneV]

\* A caller that is not inside request(). Two fields are history: swapped
\* lists what the credential signed with right after each swap of this call,
\* overlapped tells whether another caller was inside request() at some time
\* during this call.
IdleFrame == [pc |-> "idle", op |-> "request", session |-> 1, sent |-> <<>>, swaps |-> 0,
              resp |-> NoResponse, result |-> NoResult,
              swapped |-> <<>>, overlapped |-> FALSE, name |-> ""]

\* requests' Response.raise_for_status(): raises for 400 <= status < 600.
RaisesForStatus(status) == 400 <= status /\ status < 600

ShouldSwap_NoAgentKeyTest(r, a) == r.status = 401 /\ a.present

ShouldSwap_AnyClientError(r, a) ==
    400 <= r.status /\ r.status < 499 /\ a.present /\ a.agent_key # 0

\* resp.status_code == 401 and self.auth and self.auth.signer._agent_key
ShouldSwap(r, a) == r.status = 401 /\ a.present /\ a.agent_key # 0

\* 400 <= resp.status_code < 499
IsClientError(status) == 400 <= status /\ status < 499

\* json.loads on the documents of Contents, and on LocationsDocument.
JsonLoads(content) ==
    CASE content = "{}" -> DictV(EmptyDict)
      [] content = "{\"login\": \"alice\"}" -> DictV([login |-> StrV("alice")])
      [] content = "{\"login\": \"bob\"}" -> DictV([login |-> StrV("bob")])
      [] content = "{\"login\": \"my\"}" -> DictV([login |-> StrV("my")])
      [] content = LocationsDocument ->
            DictV(("us-east-1" :> StrV("https://us-east-1.api.joyentcloud.com"))
                  @@ ("private" :> StrV("https://private.example.com")))
      [] content = MachineDocument ->
            DictV([id |-> StrV("m1"), name |-> StrV("web1"),
                   type |-> StrV("smartmachine"), state |-> StrV("provisioning"),
                   dataset |-> StrV("sdc:base"), memory |-> IntV(512),
                   disk |-> IntV(10240), ips |-> <<"10.0.0.5", "165.225.1.1">>,
                   created |-> [stamp |-> "2013-01-01T00:00:00", offset |-> "00:00"],
                   updated |-> [stamp |-> "2013-02-01T00:00:00", offset |-> "00:00"]])

\* The decoded body request() returns for a response it does not raise for.
Decoded(r) ==
    IF r.content # ""
    THEN IF r.ctype = "application/json"
         THEN [t |-> "json", v |-> JsonLoads(r.content)]
         ELSE [t |-> "raw", v |-> r.content]
    ELSE NoneV

\* The caller's last call is over: it may make its next one.
Finished(f) ==
    \/ f.pc \in {"idle", "raised", "me_returned", "me_raised",
               "create_returned", "create_raised",
               "datacenters_returned", "datacenters_raised"}
    \/ f.pc = "returned" /\ f.op = "request"

\* self.auth of the session the caller's request() runs on.
SelfAuth(c) == Credential(sessions[call[c].session].auth)

\* A caller enters request(): a new frame.
request_call(c) ==
    /\ Finished(call[c])
    /\ call' = [d \in Callers |->
                  IF d = c
                  THEN [IdleFrame EXCEPT
                           !.pc = "dispatch",
                           !.overlapped = \E e \in Callers \ {c} : ~Finished(call[e])]
                  ELSE IF Finished(call[d]) THEN call[d]
                  ELSE [call[d] EXCEPT !.overlapped = TRUE]]
    /\ UNCHANGED <<auth_calls, init_args, auth, lst, server, machine, mcall, poll, sessions, DEFAULT_HEADERS, KNOWN_LOCATIONS, mop, me_log>>

request_dispatch_answers_Unsigned(c, answers) ==
    /\ call[c].pc = "dispatch"
    /\ \E r \in answers :
          call' = [call EXCEPT ![c].sent = Append(@, SignedBy(NoAuth)),
                               ![c].resp = r,
                               ![c].pc = "response"]
    /\ UNCHANGED <<auth_calls, init_args, auth, lst, server, machine, mcall, poll,
                   sessions, DEFAULT_HEADERS, KNOWN_LOCATIONS, mop, me_log>>

\* requests.request(method, full_path, auth=self.auth, ...) answers, with one
\* of the responses of `answers`.
request_dispatch_answers(c, answers) ==
    /\ call[c].pc = "dispatch"
    /\ \E r \in answers :
          call' = [call EXCEPT ![c].sent = Append(@, SignedBy(SelfAuth(c))),
                               ![c].resp = r,
                               ![c].pc = "response"]
    /\ UNCHANGED <<auth_calls, init_args, auth, lst, server, machine, mcall, poll, sessions, DEFAULT_HEADERS, KNOWN_LOCATIONS, mop, me_log>>

\* ... with any response.
request_dispatch(c) == request_dispatch_answers(c, Responses)

request_transport_error_Retries(c) ==
    /\ call[c].pc = "dispatch"
    /\ call' = [call EXCEPT ![c].sent = Append(@, SignedBy(SelfAuth(c))),
                            ![c].resp = NoResponse,
                            ![c].result = [kind |-> "TransportError", status |-> 0,
                                           body |-> NoneV],
                            ![c].pc = IF Len(call[c].sent) = 0 THEN "dispatch" ELSE "raised"]
    /\ UNCHANGED <<auth_calls, init_args, auth, lst, server, machine, mcall, poll, sessions,
                   DEFAULT_HEADERS, KNOWN_LOCATIONS, mop, me_log>>

\* requests.request raises (network or TLS failure): request() lets it through.
request_transport_error(c) ==
    /\ call[c].pc = "dispatch"
    /\ call' = [call EXCEPT ![c].sent = Append(@, SignedBy(SelfAuth(c))),
                            ![c].resp = NoResponse,
                            ![c].result = [kind |-> "TransportError", status |-> 0,
                                           body |-> NoneV],
                            ![c].pc = "raised"]
    /\ UNCHANGED <<auth_calls, init_args, auth, lst, server, machine, mcall, poll, sessions, DEFAULT_HEADERS, KNOWN_LOCATIONS, mop, me_log>>

\* The rest of request() once the response is in: the 401 test, which a
\* credential with an agent key passes, else raise for a client error, else
\* decode and return. The test and the swap_keys() call that follows it are
\* two steps: nothing keeps another caller from running between them.
request_response(c) ==
    /\ call[c].pc = "response"
    /\ LET r == call[c].resp IN
       IF ShouldSwap(r, SelfAuth(c))
       THEN call' = [call EXCEPT ![c].pc = "swap"]
       ELSE IF IsClientError(r.status) /\ RaisesForStatus(r.status)
       THEN call' = [call EXCEPT ![c].result = [kind |-> "HTTPError",
                                                status |-> r.status,
                                                body |-> NoneV],
                                 ![c].pc = "raised"]
       ELSE call' = [call EXCEPT ![c].result = [kind |-> "returned",
                                                status |-> r.status,
                                                body |-> Decoded(r)],
                                 ![c].pc = "returned"]
    /\ UNCHANGED <<auth_calls, init_args, auth, lst, server, machine, mcall, poll, sessions,
                   DEFAULT_HEADERS, KNOWN_LOCATIONS, mop, me_log>>

\* self.auth.signer.swap_keys(), on the credential the session holds now,
\* whatever it signs with by now; then `return self.request(...)`, the retry.
request_swap(c) ==
    /\ call[c].pc = "swap"
    /\ IF sessions[call[c].session].auth <= MaxSessions
       THEN /\ auth' = [auth EXCEPT ![sessions[call[c].session].auth] = swap_keys(@)]
            /\ UNCHANGED auth_calls
       ELSE /\ auth_calls' =
                  [auth_calls EXCEPT
                      ![sessions[call[c].session].auth - MaxSessions].signer =
                          swap_keys(@)]
            /\ UNCHANGED auth
    /\ call' = [call EXCEPT ![c].swaps = @ + 1, ![c].pc = "dispatch",
                            ![c].swapped = Append(@, SignedBy(swap_keys(SelfAuth(c))))]
    /\ UNCHANGED <<init_args, lst, server, machine, mcall, poll, sessions, DEFAULT_HEADERS,
                   KNOWN_LOCATIONS, mop, me_log>>

-----------------------------------------------------------------------------
(* DataCenter.me, on session 1 (the session callers 1 and 2 use).          *)

\* 'login' in j, for the j request() can return: a raw body is searched as
\* text, a decoded object is asked for the key. (None is not iterable: me_login
\* raises before asking.)
LoginIn(j) ==
    CASE j.t = "none" -> FALSE
      [] j.t = "raw"  -> j.v \in {"{\"login\": \"alice\"}", "{\"login\": \"bob\"}",
                                  "{\"login\": \"my\"}"}
      [] j.t = "json" -> "login" \in DOMAIN j.v.v

me_login_Overwrites(login, j) ==
    IF j.t = "none" THEN [raised |-> TRUE, login |-> login]
    ELSE IF LoginIn(j)
         THEN IF j.t = "json" THEN [raised |-> FALSE, login |-> j.v.v.login]
                              ELSE [raised |-> TRUE, login |-> login]
         ELSE [raised |-> FALSE, login |-> login]

\* if 'login' in j and self.login == 'my': self.login = j['login']
\* The login me() leaves, and whether it raises TypeError on the way (None is
\* not iterable; a raw body has no item 'login' to take).
me_login(login, j) ==
    IF j.t = "none" THEN [raised |-> TRUE, login |-> login]
    ELSE IF LoginIn(j) /\ login = StrV("my")
         THEN IF j.t = "json" THEN [raised |-> FALSE, login |-> j.v.v.login]
                              ELSE [raised |-> TRUE, login |-> login]
         ELSE [raised |-> FALSE, login |-> login]

\* The most account records me() fetches in one behaviour.
MaxMe == 2

\* A caller enters me(), which enters request('GET', '').
me_call(c) ==
    /\ Finished(call[c])
    /\ Len(me_log) < MaxMe
    /\ call' = [call EXCEPT ![c] = [IdleFrame EXCEPT !.pc = "dispatch", !.op = "me"]]
    /\ UNCHANGED <<auth_calls, init_args, auth, lst, server, machine, mcall, poll, sessions, DEFAULT_HEADERS, KNOWN_LOCATIONS, mop, me_log>>

\* request() has returned j to me(): the rest of me().
me_return(c) ==
    /\ call[c].pc = "returned" /\ call[c].op = "me"
    /\ LET new == me_login(sessions[1].login, call[c].result.body) IN
          /\ call' = [call EXCEPT ![c].pc = IF new.raised THEN "me_raised" ELSE "me_returned"]
          /\ sessions' = [sessions EXCEPT ![1].login = new.login]
          /\ me_log' = IF ~new.raised /\ call[c].result.body.t = "json"
                          /\ LoginIn(call[c].result.body)
                       THEN Append(me_log, call[c].result.body.v.v.login)
                       ELSE me_log
    /\ UNCHANGED <<auth_calls, init_args, auth, lst, server, machine, mcall, poll, DEFAULT_HEADERS,
                   KNOWN_LOCATIONS, mop>>

-----------------------------------------------------------------------------
(* Constructing sessions and deriving them with DataCenter.datacenter.     *)

\* The arguments the callers construct sessions with.
LocationArgs == {NoneV, StrV("eu-ams-1")}
LoginArgs == {NoneV, StrV("alice")}

\* The names given to datacenter(): a known location key, an unknown one, and
\* a host name ('.' in name).
Names == {"us-east-1", "private", "api.example.com"}
HasDot(name) == name = "api.example.com"

\* The names datacenter() looks nothing up for, as the module is imported.
DirectNames == {n \in Names : n \in ImportedLocations \/ HasDot(n)}

\* What the server answers in the specifications that look locations up:
\* every status, with no body or with the locations document, declared as
\* JSON or as plain text.
LocationResponses ==
    {r \in [status : Statuses, content : {"", LocationsDocument},
            ctype : {"application/json", "text/plain"}] :
        r.content = "" => r.ctype = "text/plain"}

\* DataCenter(...) or LegacyDataCenter(...), called by the user, with or
\* without a key_id and secret; the agent holds init_args.agent_keys keys.
construct ==
    /\ Len(sessions) < MaxSessions
    /\ \E cls \in Classes, location \in LocationArgs, headers \in HeaderArgs,
          login \in LoginArgs, verify \in BOOLEAN, keyed \in BOOLEAN,
          allow_agent \in BOOLEAN :
          /\ sessions' = Append(sessions,
                 Session(cls, location, login, verify,
                         IF keyed THEN Len(sessions) + 1 ELSE 0, 0))
          /\ auth' = Append(auth,
                 IF keyed THEN HTTPSignatureAuth(allow_agent, init_args.agent_keys)
                          ELSE NoAuth)
          /\ DEFAULT_HEADERS' = InitHeaders(DEFAULT_HEADERS, cls, headers)
    /\ UNCHANGED <<auth_calls, init_args, call, lst, server, machine, mcall, poll,
                   KNOWN_LOCATIONS, mop, me_log>>

\* __init__ as datacenter() calls it, with headers=self.default_headers: the
\* argument is the module-level dict itself, so the update is of the dict with
\* itself, after the version has been written into it.
InitHeadersAliased(shared, cls) ==
    LET versioned == Put(shared, "X-Api-Version", API_VERSION(cls))
    IN  Update(versioned, versioned)

Derived_OwnCredential(parent, p, name) ==
    Session("DataCenter", StrV(name), parent.login, parent.verify, 0, p)

\* The session datacenter(name) builds from session p:
\*   dc = DataCenter(location=name, headers=self.default_headers,
\*                   login=self.login, verify=self.verify, ...)
\*   dc.auth = self.auth
Derived(parent, p, name) ==
    [Session("DataCenter", StrV(name), parent.login, parent.verify, 0, p)
        EXCEPT !.auth = parent.auth]

\* A caller enters sessions[p].datacenters(), which enters
\* request('GET', 'datacenters').
datacenters_call(c, p) ==
    /\ Finished(call[c])
    /\ p \in DOMAIN sessions
    /\ call' = [call EXCEPT ![c] = [IdleFrame EXCEPT !.pc = "dispatch",
                                                     !.op = "datacenters",
                                                     !.session = p]]
    /\ UNCHANGED <<auth_calls, init_args, auth, lst, server, machine, mcall, poll, sessions,
                   DEFAULT_HEADERS, KNOWN_LOCATIONS, mop, me_log>>

\* dc = DataCenter(location=name, ...); dc.auth = self.auth; return dc, as
\* the last step of datacenter(name) on session p. The
\* constructor makes no credential of its own: it is given no key.
datacenter_build(p, name) ==
    /\ sessions' = Append(sessions, Derived(sessions[p], p, name))
    /\ auth' = Append(auth, NoAuth)
    /\ DEFAULT_HEADERS' = InitHeadersAliased(DEFAULT_HEADERS, "DataCenter")

\* A caller enters sessions[p].datacenter(name). A name that is no known
\* location key and no host name is looked up first, with self.datacenters();
\* any other name goes to the constructor at once.
datacenter(c, p, name) ==
    /\ Finished(call[c])
    /\ p \in DOMAIN sessions
    /\ Len(sessions) < MaxSessions
    /\ IF name \notin KNOWN_LOCATIONS /\ ~HasDot(name)
       THEN /\ call' = [call EXCEPT ![c] = [IdleFrame EXCEPT !.pc = "dispatch",
                                                             !.op = "datacenter",
                                                             !.session = p,
                                                             !.name = name]]
            /\ UNCHANGED <<sessions, auth, DEFAULT_HEADERS>>
       ELSE /\ call' = [call EXCEPT ![c] = [IdleFrame EXCEPT !.pc = "datacenters_returned",
                                                             !.op = "datacenter",
                                                             !.session = p,
                                                             !.name = name]]
            /\ datacenter_build(p, name)
    /\ UNCHANGED <<auth_calls, init_args, lst, server, machine, mcall, poll,
                   KNOWN_LOCATIONS, mop, me_log>>

\* request() has returned (j, _) to datacenters():
\* self.known_locations.update(j) merges a decoded object into the
\* module-level dict and raises for None (TypeError) and for a raw body
\* (ValueError). datacenters() then returns j; when datacenter(name) called
\* it, the constructor is next, whether or not the name is known by now.
datacenters_return(c) ==
    /\ call[c].pc = "returned" /\ call[c].op \in {"datacenters", "datacenter"}
    /\ call[c].op = "datacenter" => Len(sessions) < MaxSessions
    /\ LET j == call[c].result.body IN
       IF j.t = "json"
       THEN /\ KNOWN_LOCATIONS' = KNOWN_LOCATIONS \cup DOMAIN j.v.v
            /\ call' = [call EXCEPT ![c].pc = "datacenters_returned"]
            /\ IF call[c].op = "datacenter"
               THEN datacenter_build(call[c].session, call[c].name)
               ELSE UNCHANGED <<sessions, auth, DEFAULT_HEADERS>>
       ELSE /\ call' = [call EXCEPT ![c].pc = "datacenters_raised",
                                    ![c].result.kind =
                                        IF j.t = "none" THEN "TypeError" ELSE "ValueError"]
            /\ UNCHANGED <<sessions, auth, DEFAULT_HEADERS, KNOWN_LOCATIONS>>
    /\ UNCHANGED <<auth_calls, init_args, lst, server, machine, mcall, poll, mop, me_log>>

-----------------------------------------------------------------------------
(* DataCenter.authenticate, and requests on any of the sessions.           *)

\* The most authenticate() calls one behaviour makes.
MaxAuthenticate == 1

AuthenticateReplaces_KeyIdOnly(key_id, secret) == Truthy(key_id)

\* if key_id and secret:
AuthenticateReplaces(key_id, secret) == Truthy(key_id) /\ Truthy(secret)

\* sessions[s].authenticate(key_id, secret, allow_agent): with both given, a
\* new HTTPSignatureAuth becomes the session's auth; nothing else is
\* assigned. The call is logged with the object it made (a placeholder when
\* it made none) and, as history, the number of sessions there were.
authenticate(s, key_id, secret, allow_agent) ==
    /\ s \in DOMAIN sessions
    /\ Len(auth_calls) < MaxAuthenticate
    /\ LET made == AuthenticateReplaces(key_id, secret) IN
          /\ auth_calls' = Append(auth_calls,
                 [session |-> s, key_id |-> key_id, secret |-> secret,
                  made |-> made, nsessions |-> Len(sessions),
                  signer |-> IF made
                             THEN HTTPSignatureAuth(allow_agent, init_args.agent_keys)
                             ELSE NoAuth])
          /\ sessions' = IF made
                         THEN [sessions EXCEPT
                                  ![s].auth = MaxSessions + Len(auth_calls) + 1]
                         ELSE sessions
    /\ UNCHANGED <<init_args, auth, call, lst, server, machine, mcall, poll,
                   DEFAULT_HEADERS, KNOWN_LOCATIONS, mop, me_log>>

\* A caller enters request() on session s.
session_request_call(c, s) ==
    /\ Finished(call[c])
    /\ s \in DOMAIN sessions
    /\ call' = [call EXCEPT ![c] = [IdleFrame EXCEPT !.pc = "dispatch", !.session = s]]
    /\ UNCHANGED <<auth_calls, init_args, auth, lst, server, machine, mcall, poll,
                   sessions, DEFAULT_HEADERS, KNOWN_LOCATIONS, mop, me_log>>

-----------------------------------------------------------------------------
(* The filtered-listing accessors: DataCenter.machines, packages, images.  *)

\* The most options one call supplies with a value other than the default.
MaxSupplied == 2
\* The most resources the server holds, and its largest page size.
MaxCount == 5
MaxLimit == 2

\* limit = 1000 / offset = 0: the locals machines() falls back to.
DefaultLimit == 1000
DefaultOffset == 0

MachinesOptions == {"machine_type", "name", "dataset", "state", "memory", "tombstone",
                    "tags", "credentials", "paged", "limit", "offset"}
PackagesOptions == {"name", "memory", "disk", "swap", "version", "vcpus", "group"}
ImagesOptions == {"name", "os", "version"}
NumMachinesOptions == {"machine_type", "dataset", "state", "memory", "tombstone", "tags"}

OptionsOf(accessor) ==
    CASE accessor = "machines" -> MachinesOptions
      [] accessor = "packages" -> PackagesOptions
      [] accessor = "images"   -> ImagesOptions
      [] accessor = "num_machines" -> NumMachinesOptions

\* The default of a keyword parameter in the accessor's signature.
Default(o) == IF o \in {"credentials", "paged"} THEN BoolV(FALSE) ELSE NoneV

TagNames == {"role", "env"}
\* 'tag.' + str(k)
TagKey(k) == CASE k = "role" -> "tag.role" [] k = "env" -> "tag.env"

\* The values a caller passes for an option, other than its default.
OptionValues(o) ==
    CASE o \in {"memory", "disk", "swap", "vcpus", "tombstone"} -> {IntV(0), IntV(512)}
      [] o = "limit"   -> {IntV(0), IntV(1), IntV(2)}
      [] o = "offset"  -> {IntV(0), IntV(1)}
      [] o \in {"credentials", "paged"} -> {BoolV(TRUE)}
      [] o = "tags"    -> {DictV(EmptyDict), DictV([role |-> StrV("web")]),
                           DictV([role |-> StrV("web"), env |-> StrV("")])}
      [] o = "dataset" -> {StrV(""), StrV("sdc:base"),
                           DictV([urn |-> StrV("sdc:base")]),
                           DictV([id |-> StrV("uuid")]),
                           DictV([urn |-> StrV("sdc:base"), id |-> StrV("uuid")])}
      [] OTHER         -> {StrV(""), StrV("x")}

AllOptionValues ==
    UNION {OptionValues(o) : o \in MachinesOptions \cup PackagesOptions \cup ImagesOptions}

\* The keyword arguments of a call as the accessor sees them: the supplied
\* values, and the signature's default for every option left out.
ArgsOf(accessor) ==
    {[o \in OptionsOf(accessor) |-> IF o \in DOMAIN f THEN f[o] ELSE Default(o)] :
        f \in UNION {{g \in [S -> AllOptionValues] : \A o \in S : g[o] \in OptionValues(o)} :
                        S \in {T \in SUBSET OptionsOf(accessor) : Cardinality(T) <= MaxSupplied}}}

\* machines(): isinstance(dataset, dict) and dataset.get('urn', dataset['id'])
\* looks up 'id' before .get is called, a KeyError for a dict without 'id'.
MachinesDatasetKeyError(a) ==
    Truthy(a.dataset) /\ a.dataset.t = "dict" /\ "id" \notin DOMAIN a.dataset.v

MachinesDataset(a) ==
    IF a.dataset.t = "dict" THEN Get(a.dataset.v, "urn", a.dataset.v["id"]) ELSE a.dataset

\* params with params[key] = value when the test holds.
PutIf(test, params, key, value) == IF test THEN Put(params, key, value) ELSE params

\* for k, v in tags.items(): params['tag.' + str(k)] = v
PutTags(params, tags) ==
    [x \in DOMAIN params \cup {TagKey(k) : k \in DOMAIN tags} |->
        IF \E k \in DOMAIN tags : TagKey(k) = x
        THEN tags[CHOOSE k \in DOMAIN tags : TagKey(k) = x]
        ELSE params[x]]

MachinesParams_SendsPagingDefaults(a) ==
    LET p1 == PutIf(Truthy(a.machine_type), EmptyDict, "type", a.machine_type)
        p2 == PutIf(Truthy(a.name), p1, "name", a.name)
        p3 == PutIf(Truthy(a.dataset), p2, "dataset", MachinesDataset(a))
        p4 == PutIf(Truthy(a.state), p3, "state", a.state)
        p5 == PutIf(Truthy(a.memory), p4, "memory", a.memory)
        p6 == PutIf(Truthy(a.tombstone), p5, "tombstone", a.tombstone)
        p7 == IF Truthy(a.tags) THEN PutTags(p6, a.tags.v) ELSE p6
        p8 == PutIf(Truthy(a.credentials), p7, "credentials", BoolV(TRUE))
        p9 == Put(p8, "limit", IF Truthy(a.limit) THEN a.limit ELSE IntV(DefaultLimit))
    IN  Put(p9, "offset", IF Truthy(a.offset) THEN a.offset ELSE IntV(DefaultOffset))

\* The params dict machines() builds: one `if option:` per option.
MachinesParams(a) ==
    LET p1 == PutIf(Truthy(a.machine_type), EmptyDict, "type", a.machine_type)
        p2 == PutIf(Truthy(a.name), p1, "name", a.name)
        p3 == PutIf(Truthy(a.dataset), p2, "dataset", MachinesDataset(a))
        p4 == PutIf(Truthy(a.state), p3, "state", a.state)
        p5 == PutIf(Truthy(a.memory), p4, "memory", a.memory)
        p6 == PutIf(Truthy(a.tombstone), p5, "tombstone", a.tombstone)
        p7 == IF Truthy(a.tags) THEN PutTags(p6, a.tags.v) ELSE p6
        p8 == PutIf(Truthy(a.credentials), p7, "credentials", BoolV(TRUE))
        p9 == PutIf(Truthy(a.limit), p8, "limit", a.limit)
    IN  PutIf(Truthy(a.offset), p9, "offset", a.offset)

\* The params dict packages() builds.
PackagesParams(a) ==
    LET p1 == PutIf(Truthy(a.name), EmptyDict, "name", a.name)
        p2 == PutIf(Truthy(a.memory), p1, "memory", a.memory)
        p3 == PutIf(Truthy(a.disk), p2, "disk", a.disk)
        p4 == PutIf(Truthy(a.swap), p3, "swap", a.swap)
        p5 == PutIf(Truthy(a.version), p4, "version", a.version)
        p6 == PutIf(Truthy(a.vcpus), p5, "vcpus", a.vcpus)
    IN  PutIf(Truthy(a.group), p6, "group", a.group)

\* The params dict images() builds.
ImagesParams(a) ==
    LET p1 == PutIf(Truthy(a.name), EmptyDict, "name", a.name)
        p2 == PutIf(Truthy(a.os), p1, "os", a.os)
    IN  PutIf(Truthy(a.version), p2, "version", a.version)

\* The query key an option travels under.
ParamKey(o) == IF o = "machine_type" THEN "type" ELSE o

NoListResult == [kind |-> "none", value |-> <<>>]

IdleListing == [pc |-> "idle", accessor |-> "none", args |-> EmptyDict,
                params |-> EmptyDict, limit |-> 0, offset |-> 0,
                reqs |-> <<>>, machines |-> <<>>, result |-> NoListResult]

Min(a, b) == IF a < b THEN a ELSE b

\* The server's answer to GET machines with the query `params`: the resources
\* offset+1 .. offset+limit of the server.count it holds (its own page size when
\* no limit is sent), with the x-query-limit and x-resource-count headers.
ServerPage(params) ==
    LET off == IF "offset" \in DOMAIN params THEN params["offset"].v ELSE 0
        lim == IF "limit" \in DOMAIN params THEN params["limit"].v ELSE server.limit
        last == Min(server.count, off + lim)
    IN  [entries |-> [i \in 1..(IF last > off THEN last - off ELSE 0) |-> off + i],
         query_limit |-> lim,
         resource_count |-> server.count]

AfterPage_IgnoresPaged(paged, page) ==
    IF page.resource_count > page.query_limit THEN "NameError" ELSE "break"

\* What follows machines.extend(j) in the loop of machines(): with paged unset
\* and more resources than the page holds, the assignment data['offset'] = ...
\* names `data`, which machines() never binds: a NameError; else the loop ends.
AfterPage(paged, page) ==
    IF ~Truthy(paged)
    THEN IF page.resource_count > page.query_limit THEN "NameError" ELSE "break"
    ELSE "break"

\* machines(...) up to its loop: the params and the limit and offset locals.
\* An accessor keeps nothing from one call to the next, so a behaviour makes
\* one call.
machines_call ==
    /\ lst.pc = "idle"
    /\ \E a \in ArgsOf("machines") :
          IF MachinesDatasetKeyError(a)
          THEN lst' = [IdleListing EXCEPT !.pc = "raised", !.accessor = "machines",
                                          !.args = a,
                                          !.result = [kind |-> "KeyError", value |-> <<>>]]
          ELSE lst' = [IdleListing EXCEPT
                          !.pc = "loop", !.accessor = "machines", !.args = a,
                          !.params = MachinesParams(a),
                          !.limit = IF Truthy(a.limit) THEN a.limit.v ELSE DefaultLimit,
                          !.offset = IF Truthy(a.offset) THEN a.offset.v ELSE DefaultOffset]
    /\ UNCHANGED <<auth_calls, init_args, auth, call, server, machine, mcall, poll, sessions, DEFAULT_HEADERS, KNOWN_LOCATIONS, mop, me_log>>

\* One turn of the loop of machines(): the request is answered.
machines_page ==
    /\ lst.pc = "loop"
    /\ LET page == ServerPage(lst.params)
           got == lst.machines \o page.entries
           after == AfterPage(lst.args.paged, page)
       IN  lst' = [lst EXCEPT
                      !.reqs = Append(@, [path |-> "machines", params |-> lst.params]),
                      !.machines = got,
                      !.pc = IF after = "break" THEN "returned" ELSE "raised",
                      !.result = IF after = "break"
                                 THEN [kind |-> "returned", value |-> got]
                                 ELSE [kind |-> after, value |-> <<>>]]
    /\ UNCHANGED <<auth_calls, init_args, auth, call, server, machine, mcall, poll, sessions, DEFAULT_HEADERS, KNOWN_LOCATIONS, mop, me_log>>

\* One turn of the loop of machines(): self.request raises.
machines_request_raises ==
    /\ lst.pc = "loop"
    /\ lst' = [lst EXCEPT
                  !.reqs = Append(@, [path |-> "machines", params |-> lst.params]),
                  !.pc = "raised",
                  !.result = [kind |-> "HTTPError", value |-> <<>>]]
    /\ UNCHANGED <<auth_calls, init_args, auth, call, server, machine, mcall, poll, sessions, DEFAULT_HEADERS, KNOWN_LOCATIONS, mop, me_log>>

\* An accessor that sends one request with the params it built.
OneRequest(accessor, a, params, ok) ==
    lst' = [IdleListing EXCEPT
               !.pc = IF ok THEN "returned" ELSE "raised",
               !.accessor = accessor, !.args = a, !.params = params,
               !.reqs = <<[path |-> accessor, params |-> params]>>,
               !.result = [kind |-> IF ok THEN "returned" ELSE "HTTPError",
                           value |-> <<>>]]

\* packages(...)
packages_call ==
    /\ lst.pc = "idle"
    /\ \E a \in ArgsOf("packages"), ok \in BOOLEAN :
          OneRequest("packages", a, PackagesParams(a), ok)
    /\ UNCHANGED <<auth_calls, init_args, auth, call, server, machine, mcall, poll, sessions, DEFAULT_HEADERS, KNOWN_LOCATIONS, mop, me_log>>

\* images(...)
images_call ==
    /\ lst.pc = "idle"
    /\ \E a \in ArgsOf("images"), ok \in BOOLEAN :
          OneRequest("images", a, ImagesParams(a), ok)
    /\ UNCHANGED <<auth_calls, init_args, auth, call, server, machine, mcall, poll, sessions, DEFAULT_HEADERS, KNOWN_LOCATIONS, mop, me_log>>

-----------------------------------------------------------------------------
(* The accessors that send one request for one resource or one count:      *)
(* DataCenter.dataset, package, num_machines.                              *)

\* What a caller passes to dataset(): an id or URN, or a dataset record.
DatasetIdentifiers ==
    {StrV("sdc:base"), DictV([urn |-> StrV("sdc:base")]), DictV([id |-> StrV("uuid")]),
     DictV([urn |-> StrV("sdc:base"), id |-> StrV("uuid")]),
     DictV([name |-> StrV("base")])}

\* What a caller passes to package(): a name, or a package record.
PackageNames ==
    {StrV("small"), DictV([name |-> StrV("small")]), DictV([id |-> StrV("uuid")]),
     DictV([name |-> StrV("small"), id |-> StrV("uuid")]), DictV(EmptyDict)}

\* str(x) for the identifiers above: a string is itself, None is 'None'.
StrOf(x) == IF x = NoneV THEN StrV("None") ELSE x

\* dataset(): identifier.get('id', identifier['urn']) looks up 'urn' before
\* .get is called, a KeyError for a dict without 'urn'.
DatasetKeyError(identifier) ==
    identifier.t = "dict" /\ "urn" \notin DOMAIN identifier.v

DatasetIdentifier(identifier) ==
    IF identifier.t = "dict"
    THEN Get(identifier.v, "id", identifier.v["urn"])
    ELSE identifier

\* package(): name.get('id', name.get('name'))
PackageName(name) ==
    IF name.t = "dict" THEN Get(name.v, "id", Get(name.v, "name", NoneV)) ELSE name

\* An accessor that sends one request and returns a list (value) or a number
\* (count) made from the answer.
Returned(value) == [kind |-> "returned", value |-> value]
Counted(n) == [kind |-> "returned", value |-> <<>>, count |-> n]

OneLookup(accessor, a, method, path, params, ok, returned) ==
    lst' = [IdleListing EXCEPT
               !.pc = IF ok THEN "returned" ELSE "raised",
               !.accessor = accessor, !.args = a, !.params = params,
               !.reqs = <<[method |-> method, path |-> path, params |-> params]>>,
               !.result = IF ok THEN returned
                                ELSE [kind |-> "HTTPError", value |-> <<>>]]

\* dataset(identifier)
dataset_call ==
    /\ lst.pc = "idle"
    /\ \E identifier \in DatasetIdentifiers, ok \in BOOLEAN :
          IF DatasetKeyError(identifier)
          THEN lst' = [IdleListing EXCEPT
                          !.pc = "raised", !.accessor = "dataset",
                          !.args = [identifier |-> identifier],
                          !.result = [kind |-> "KeyError", value |-> <<>>]]
          ELSE OneLookup("dataset", [identifier |-> identifier], "GET",
                         <<"datasets", StrOf(DatasetIdentifier(identifier))>>,
                         EmptyDict, ok, Returned(<<>>))
    /\ UNCHANGED <<auth_calls, init_args, auth, call, server, machine, mcall, poll, sessions,
                   DEFAULT_HEADERS, KNOWN_LOCATIONS, mop, me_log>>

\* package(name)
package_call ==
    /\ lst.pc = "idle"
    /\ \E name \in PackageNames, ok \in BOOLEAN :
          OneLookup("package", [name |-> name], "GET",
                    <<"packages", StrOf(PackageName(name))>>, EmptyDict, ok,
                    Returned(<<>>))
    /\ UNCHANGED <<auth_calls, init_args, auth, call, server, machine, mcall, poll, sessions,
                   DEFAULT_HEADERS, KNOWN_LOCATIONS, mop, me_log>>

\* The x-resource-count header of the answer to HEAD machines, when present.
ResourceCounts == {NoneV, IntV(0), IntV(3)}

\* num_machines(...): self.request('HEAD', 'machines'), whatever the predicates.
NumMachinesParams(a) == EmptyDict

\* int(r.headers.get('x-resource-count', 0))
NumMachines(header) == IF header = NoneV THEN 0 ELSE header.v

num_machines_call ==
    /\ lst.pc = "idle"
    /\ \E a \in ArgsOf("num_machines"), header \in ResourceCounts, ok \in BOOLEAN :
          OneLookup("num_machines", a, "HEAD", <<"machines">>, NumMachinesParams(a),
                    ok, Counted(NumMachines(header)))
    /\ UNCHANGED <<auth_calls, init_args, auth, call, server, machine, mcall, poll, sessions,
                   DEFAULT_HEADERS, KNOWN_LOCATIONS, mop, me_log>>

-----------------------------------------------------------------------------
(* DataCenter.networks and search_dicts. Text is a sequence of characters  *)
(* here, since the search looks inside it.                                 *)

\* The most networks the server lists.
MaxNetworks == 2

Lower(c) == CASE c = "N" -> "n" [] c = "E" -> "e" [] c = "T" -> "t" [] OTHER -> c

\* The networks a server may list: records with an id and a name.
NetworkDicts ==
    {[id |-> <<"1">>, name |-> <<"n", "e", "t", "1">>],
     [id |-> <<"2">>, name |-> <<"N", "e", "t", "2">>],
     [id |-> <<"3">>, name |-> <<"d", "b">>]}

\* The lists of at most n networks.
RECURSIVE ListsUpTo(_)
ListsUpTo(n) ==
    IF n = 0 THEN {<<>>}
    ELSE ListsUpTo(n - 1) \cup {Append(l, d) : l \in ListsUpTo(n - 1), d \in NetworkDicts}

NetworkLists == ListsUpTo(MaxNetworks)

\* The regular expressions a caller searches with: literal text, and '.*'.
Patterns == {<<"n", "e", "t">>, <<"N", "E", "T">>, <<"d", "b">>, <<"2">>, <<".", "*">>}

\* The search argument: None, '' or a pattern.
Searches == {NoneV} \cup {[t |-> "chars", v |-> x] : x \in Patterns \cup {<<>>}}

\* re.compile(predicate, re.IGNORECASE).search(text), for the patterns above:
\* '.*' matches any text, the empty one too; literal text matches where it
\* occurs, whatever the case.
Search(predicate, text) ==
    \/ predicate = <<".", "*">>
    \/ \E i \in 0..(Len(text) - Len(predicate)) :
          \A k \in 1..Len(predicate) : Lower(text[i + k]) = Lower(predicate[k])

\* for f in fields, when fields is a tuple of names or one str: a str gives
\* its characters.
Iterate(fields) ==
    IF fields.t = "tuple" THEN fields.v
    ELSE [i \in 1..Len(fields.v) |-> <<fields.v[i]>>]

\* networks(search=None, fields=('name,')): the default is the str 'name,'.
DefaultNetworkFields == [t |-> "str", v |-> <<"n", "a", "m", "e", ",">>]

\* The field names a caller passes: tuples of names.
FieldArgs ==
    {DefaultNetworkFields,
     [t |-> "tuple", v |-> <<(<<"n", "a", "m", "e">>)>>],
     [t |-> "tuple", v |-> <<(<<"n", "a", "m", "e">>), (<<"i", "d">>)>>]}

\* d.get(f, '') for a network record d and a field name f, given as text.
GetField(d, f) ==
    CASE f = <<"n", "a", "m", "e">> -> d.name
      [] f = <<"i", "d">> -> d.id
      [] OTHER -> <<>>

\* m = [d for f in fields if matcher.search(d.get(f, ''))]; if m: yield m[0]
search_dicts(dicts, predicate, fields) ==
    SelectSeq(dicts, LAMBDA d :
        \E i \in DOMAIN Iterate(fields) : Search(predicate, GetField(d, Iterate(fields)[i])))

\* networks(search, fields)
networks_call ==
    /\ lst.pc = "idle"
    /\ \E j \in NetworkLists, search \in Searches, fields \in FieldArgs, ok \in BOOLEAN :
          OneLookup("networks", [search |-> search, fields |-> fields, j |-> j], "GET",
                    <<"networks">>, EmptyDict, ok,
                    Returned(IF search # NoneV /\ search.v # <<>>
                             THEN search_dicts(j, search.v, fields)
                             ELSE j))
    /\ UNCHANGED <<auth_calls, init_args, auth, call, server, machine, mcall, poll, sessions,
                   DEFAULT_HEADERS, KNOWN_LOCATIONS, mop, me_log>>

-----------------------------------------------------------------------------
(* The Machine proxy (smartdc/machine.py).                                 *)

\* An ISO8601 timestamp as the API sends it: the text before its last '+'
\* and the UTC offset after it.
TimeV(stamp, offset) == [stamp |-> stamp, offset |-> offset]

\* dt_time(x): strptime of x.rpartition('+')[0]; the offset is dropped.
dt_time(x) == x.stamp

MachineStates == {StrV("provisioning"), StrV("running"), StrV("stopped")}

\* The metadata a machine record carries ('metadata' may be missing): plain
\* keys, the generated credentials, the boot script.
Metadatas ==
    { EmptyDict,
      [role |-> StrV("web")],
      [role |-> StrV("db"), credentials |-> DictV([root |-> StrV("pw1")])],
      ("credentials" :> DictV([root |-> StrV("pw2")])) @@ ("user-script" :> StrV("s1")),
      [credentials |-> DictV([admin |-> StrV("pw3")])],
      ("user-script" :> StrV("s2")) }

\* A machine record of the API (GET /:login/machines/:id), without its id.
MachineRecord(name, state, memory, created) ==
    [name |-> name, type |-> StrV("smartmachine"), state |-> state,
     dataset |-> StrV("sdc:base"), memory |-> memory, disk |-> IntV(10240),
     ips |-> <<"10.0.0.5", "165.225.1.1">>,
     created |-> created, updated |-> TimeV("2013-02-01T00:00:00", "00:00")]

BareRecords ==
    { MachineRecord(n, st, mem, cr) :
        n \in {StrV("web1"), StrV("web2")}, st \in MachineStates,
        mem \in {IntV(512), IntV(1024)},
        cr \in {TimeV("2013-01-01T00:00:00", "00:00"), TimeV("2013-01-01T00:00:00", "01:00")} }

\* A Machine object before its first _save: no attribute but id and datacenter
\* (the session, by its index) is set.
NewMachine(id) ==
    [id |-> id, datacenter |-> 1, saved |-> FALSE,
     name |-> NoneV, type |-> NoneV, state |-> NoneV, dataset |-> NoneV,
     memory |-> NoneV, disk |-> NoneV, ips |-> <<>>, metadata |-> EmptyDict,
     credentials |-> EmptyDict, boot_script |-> NoneV, created |-> "", updated |-> ""]

\* metadata.pop('credentials', {})
PoppedCredentials(data) ==
    LET md == Get(data, "metadata", EmptyDict)
    IN  IF "credentials" \in DOMAIN md THEN md["credentials"].v ELSE EmptyDict

\* Machine.path: 'machines/{id}'.format(id=self.id), as its segments.
path(m) == <<"machines", m.id>>

\* The path raw_machine_data(machine_id) requests: 'machines/' + str(machine_id)
raw_machine_data_path(machine_id) == <<"machines", machine_id>>

\* The records the server may answer a machine fetch with.
Records ==
    BareRecords \cup { Put(r, "metadata", md) : r \in BareRecords, md \in Metadatas }

\* The error document the API sends with an error status; request() returns
\* it as the decoded body when the status is 499 or 5xx.
ErrorDocument == [code |-> StrV("InternalError"), message |-> StrV("boom")]

\* Bodies request() returns that _save cannot commit in full: the error
\* document, and records that lack 'created' or 'updated'.
Unsaveable ==
    LET r == Put(MachineRecord(StrV("web2"), StrV("stopped"), IntV(1024),
                               TimeV("2013-01-01T00:00:00", "00:00")),
                 "metadata", [role |-> StrV("db")])
    IN  {ErrorDocument, Without(r, "created"), Without(r, "updated")}

\* _save raises on data: dt_time(data.get('created')), or the same of
\* 'updated', is dt_time(None), an AttributeError.
SaveRaises(data) == ~({"created", "updated"} \subseteq DOMAIN data)

save_TakesId(m, data) ==
    LET md == Get(data, "metadata", EmptyDict)
        old == IF m.saved THEN m.credentials ELSE EmptyDict
    IN  [m EXCEPT
            !.id = IF "id" \in DOMAIN data THEN data["id"].v ELSE @,
            !.saved = TRUE,
            !.name = Get(data, "name", NoneV),
            !.type = Get(data, "type", NoneV),
            !.state = Get(data, "state", NoneV),
            !.dataset = Get(data, "dataset", NoneV),
            !.memory = Get(data, "memory", NoneV),
            !.disk = Get(data, "disk", NoneV),
            !.ips = Get(data, "ips", <<>>),
            !.metadata = Without(Without(md, "credentials"), "user-script"),
            !.credentials = Update(old, PoppedCredentials(data)),
            !.boot_script = Get(md, "user-script", NoneV),
            !.created = IF "created" \in DOMAIN data
                        THEN dt_time(data["created"]) ELSE @,
            !.updated = IF SaveRaises(data) THEN @ ELSE dt_time(data["updated"])]

save_MergesMetadata(m, data) ==
    LET md == Get(data, "metadata", EmptyDict)
        old == IF m.saved THEN m.credentials ELSE EmptyDict
    IN  [m EXCEPT
            !.saved = TRUE,
            !.name = Get(data, "name", NoneV),
            !.type = Get(data, "type", NoneV),
            !.state = Get(data, "state", NoneV),
            !.dataset = Get(data, "dataset", NoneV),
            !.memory = Get(data, "memory", NoneV),
            !.disk = Get(data, "disk", NoneV),
            !.ips = Get(data, "ips", <<>>),
            !.metadata = Update(m.metadata, Without(Without(md, "credentials"), "user-script")),
            !.credentials = Update(old, PoppedCredentials(data)),
            !.boot_script = Get(md, "user-script", NoneV),
            !.created = IF "created" \in DOMAIN data
                        THEN dt_time(data["created"]) ELSE @,
            !.updated = IF SaveRaises(data) THEN @ ELSE dt_time(data["updated"])]

\* Machine._save(data): every attribute is assigned from the record, in the
\* order of the code, except that _credentials, created empty on the first
\* save, is updated with the record's credentials; credentials and
\* user-script are popped off metadata. The assignments of created and
\* updated come last: when the record lacks one, _save raises there and the
\* attributes assigned before it stay assigned.
save(m, data) ==
    LET md == Get(data, "metadata", EmptyDict)
        old == IF m.saved THEN m.credentials ELSE EmptyDict
    IN  [m EXCEPT
            !.saved = TRUE,
            !.name = Get(data, "name", NoneV),
            !.type = Get(data, "type", NoneV),
            !.state = Get(data, "state", NoneV),
            !.dataset = Get(data, "dataset", NoneV),
            !.memory = Get(data, "memory", NoneV),
            !.disk = Get(data, "disk", NoneV),
            !.ips = Get(data, "ips", <<>>),
            !.metadata = Without(Without(md, "credentials"), "user-script"),
            !.credentials = Update(old, PoppedCredentials(data)),
            !.boot_script = Get(md, "user-script", NoneV),
            !.created = IF "created" \in DOMAIN data
                        THEN dt_time(data["created"]) ELSE @,
            !.updated = IF SaveRaises(data) THEN @ ELSE dt_time(data["updated"])]

\* Machine(datacenter, data=record): self.id = data.pop('id'); self._save(data)
Machine(id, data) == save(NewMachine(id), data)

\* The Machine's last fetch: its outcome, the record it answered and the path
\* it requested (none when the record came with the constructor call).
NoFetch == [outcome |-> "none", data |-> EmptyDict, path |-> <<>>]

-----------------------------------------------------------------------------
(* DataCenter.create_machine, on session 1.                                *)

CreateRaises_Never(st) == FALSE

\* if r.status_code >= 400: print(j, file=sys.stderr); r.raise_for_status()
CreateRaises(st) == st >= 400 /\ RaisesForStatus(st)

\* data.pop('id') has something to pop: j is a decoded object with an id.
\* (None and a raw body have no pop, an object without id raises KeyError.)
HasId(j) == j.t = "json" /\ "id" \in DOMAIN j.v.v

\* A caller enters create_machine(), which enters request('POST', 'machines').
create_machine_call(c) ==
    /\ Finished(call[c])
    /\ call' = [call EXCEPT ![c] = [IdleFrame EXCEPT !.pc = "dispatch",
                                                     !.op = "create_machine"]]
    /\ UNCHANGED <<auth_calls, init_args, auth, lst, server, machine, mcall, poll, sessions,
                   DEFAULT_HEADERS, KNOWN_LOCATIONS, mop, me_log>>

\* request() has returned (j, r) to create_machine(): the status test and
\* Machine(datacenter=self, data=j). The record of MachineDocument is not
\* empty once its id is popped, so the constructor fetches nothing.
create_machine_return(c) ==
    /\ call[c].pc = "returned" /\ call[c].op = "create_machine"
    /\ LET r == call[c].resp
           j == call[c].result.body
       IN  IF CreateRaises(r.status)
           THEN /\ call' = [call EXCEPT ![c].pc = "create_raised",
                                        ![c].result.kind = "HTTPError"]
                /\ UNCHANGED machine
           ELSE IF HasId(j) /\ ~SaveRaises(Without(j.v.v, "id"))
           THEN /\ call' = [call EXCEPT ![c].pc = "create_returned"]
                /\ machine' = Machine(j.v.v["id"].v, Without(j.v.v, "id"))
           ELSE /\ call' = [call EXCEPT ![c].pc = "create_raised",
                                        ![c].result.kind =
                                            IF j.t = "json" /\ ~HasId(j)
                                            THEN "KeyError" ELSE "AttributeError"]
                /\ UNCHANGED machine
    /\ UNCHANGED <<auth_calls, init_args, auth, lst, server, mcall, poll, sessions,
                   DEFAULT_HEADERS, KNOWN_LOCATIONS, mop, me_log>>

\* Machine.refresh(): raw_machine_data returns a body, which _save commits,
\* in full or up to the assignment that raises.
refresh_from(records) ==
    /\ machine.saved
    /\ \E data \in records :
          /\ machine' = save(machine, data)
          /\ mcall' = [outcome |-> IF SaveRaises(data) THEN "save_raised" ELSE "ok",
                       data |-> data,
                       path |-> raw_machine_data_path(machine.id)]
    /\ UNCHANGED <<auth_calls, init_args, auth, call, lst, server, poll, sessions, DEFAULT_HEADERS, KNOWN_LOCATIONS, mop, me_log>>

\* ... with any of the records of Records, or a body _save raises on.
refresh == refresh_from(Records \cup Unsaveable)

\* Machine.refresh(): the request of raw_machine_data raises, or returns a
\* body that is no dict (None, raw text), on which _save raises at its first
\* data.get; nothing is saved.
refresh_raises ==
    /\ machine.saved
    /\ mcall' = [mcall EXCEPT !.outcome = "raised",
                              !.path = raw_machine_data_path(machine.id)]
    /\ UNCHANGED <<auth_calls, init_args, auth, call, lst, server, machine, poll, sessions, DEFAULT_HEADERS, KNOWN_LOCATIONS, mop, me_log>>

-----------------------------------------------------------------------------
(* Machine.status, Machine.poll_until and Machine.poll_while.              *)

\* The longest sequence of states the server goes through, and the most
\* polls a behaviour follows.
MaxSeq == 3
MaxPolls == 4

\* The sequences of states the server reports, poll after poll; once at the
\* end of the sequence it keeps reporting the last state.
StateSeqs == UNION {[1..n -> MachineStates] : n \in 1..MaxSeq}

StateAt(seq, i) == IF i <= Len(seq) THEN seq[i] ELSE seq[Len(seq)]

IdlePoll == [pc |-> "idle", op |-> "none", target |-> NoneV, polls |-> 0, sleeps |-> 0]

status_ReturnsStale(before, after) == before.state

\* status(): self.refresh(); return self.state
status(before, after) == after.state

PollAgain_AsPollUntil(op, fetched, target) == fetched # target

\* The loop tests: `while self.status() != state` in poll_until,
\* `while self.status() == state` in poll_while.
PollAgain(op, fetched, target) ==
    IF op = "poll_until" THEN fetched # target ELSE fetched = target

\* poll_until(state) is called.
poll_until_call ==
    /\ poll.pc = "idle"
    /\ \E s \in MachineStates :
          poll' = [IdlePoll EXCEPT !.pc = "poll", !.op = "poll_until", !.target = s]
    /\ UNCHANGED <<auth_calls, init_args, auth, call, lst, server, machine, mcall, sessions, DEFAULT_HEADERS, KNOWN_LOCATIONS, mop, me_log>>

\* poll_while(state) is called.
poll_while_call ==
    /\ poll.pc = "idle"
    /\ \E s \in MachineStates :
          poll' = [IdlePoll EXCEPT !.pc = "poll", !.op = "poll_while", !.target = s]
    /\ UNCHANGED <<auth_calls, init_args, auth, call, lst, server, machine, mcall, sessions,
                   DEFAULT_HEADERS, KNOWN_LOCATIONS, mop, me_log>>

\* The loop test of poll_until and poll_while. status() refreshes from the
\* server's record, in the state the server is in at this poll.
poll_status ==
    /\ poll.pc = "poll"
    /\ poll.polls < MaxPolls
    /\ LET data == [server.record EXCEPT !["state"] = StateAt(server.states, poll.polls + 1)]
           after == save(machine, data)
       IN  /\ machine' = after
           /\ mcall' = [outcome |-> "ok", data |-> data,
                        path |-> raw_machine_data_path(machine.id)]
           /\ poll' = [poll EXCEPT
                          !.polls = @ + 1,
                          !.pc = IF PollAgain(poll.op, status(machine, after), poll.target)
                                 THEN "sleep" ELSE "returned"]
    /\ UNCHANGED <<auth_calls, init_args, auth, call, lst, server, sessions, DEFAULT_HEADERS, KNOWN_LOCATIONS, mop, me_log>>

\* The request of a poll returns a body _save raises on: refresh() has
\* assigned the attributes up to that point and the error leaves the
\* polling method.
poll_status_save_raises ==
    /\ poll.pc = "poll"
    /\ poll.polls < MaxPolls
    /\ \E data \in Unsaveable :
          /\ machine' = save(machine, data)
          /\ mcall' = [outcome |-> "save_raised", data |-> data,
                       path |-> raw_machine_data_path(machine.id)]
    /\ poll' = [poll EXCEPT !.polls = @ + 1, !.pc = "raised"]
    /\ UNCHANGED <<auth_calls, init_args, auth, call, lst, server, sessions,
                   DEFAULT_HEADERS, KNOWN_LOCATIONS, mop, me_log>>

\* The request of a poll raises (or returns a body that is no dict): nothing
\* is saved and the error leaves the polling method.
poll_status_raises ==
    /\ poll.pc = "poll"
    /\ poll.polls < MaxPolls
    /\ poll' = [poll EXCEPT !.polls = @ + 1, !.pc = "raised"]
    /\ mcall' = [mcall EXCEPT !.outcome = "raised",
                              !.path = raw_machine_data_path(machine.id)]
    /\ UNCHANGED <<auth_calls, init_args, auth, call, lst, server, machine, sessions, DEFAULT_HEADERS, KNOWN_LOCATIONS, mop, me_log>>

\* The loop body: time.sleep(interval)
poll_sleep ==
    /\ poll.pc = "sleep"
    /\ poll' = [poll EXCEPT !.sleeps = @ + 1, !.pc = "poll"]
    /\ UNCHANGED <<auth_calls, init_args, auth, call, lst, server, machine, mcall, sessions, DEFAULT_HEADERS, KNOWN_LOCATIONS, mop, me_log>>

-----------------------------------------------------------------------------
(* Machine metadata: get_metadata, delete_metadata_at_key and              *)
(* delete_all_metadata.                                                    *)

\* The metadata keys a caller deletes.
MetadataKeys == {"role", "env"}

\* No metadata call running. before is history: the metadata cached when the
\* call began; statuses are those of the answers so far (0: the transport
\* failed); got is what the GET returned.
IdleMop == [pc |-> "idle", op |-> "none", key |-> "", reqs |-> <<>>, statuses |-> <<>>,
            before |-> EmptyDict, got |-> EmptyDict,
            script |-> NoneV, boot_before |-> NoneV,
            name |-> "", todo |-> <<>>]

\* datacenter.request() raises for the final answer: a transport failure, or
\* a client error that raise_for_status() raises for.
RequestRaises(st) == st = 0 \/ (IsClientError(st) /\ RaisesForStatus(st))

DeleteRaises_RequestOnly(st) == RequestRaises(st)

\* j, r = self.datacenter.request('DELETE', ...); r.raise_for_status()
DeleteRaises(st) == RequestRaises(st) \/ RaisesForStatus(st)

\* The DELETE of either method, and its answer: it raises, or goes on to
\* get_metadata().
MetadataDelete(op, key, suffix) ==
    /\ mop.pc \in {"idle", "returned", "raised"}
    /\ \E st \in Statuses \cup {0} :
          mop' = [IdleMop EXCEPT
                     !.op = op, !.key = key,
                     !.before = machine.metadata,
                     !.reqs = <<[method |-> "DELETE", path |-> path(machine) \o suffix]>>,
                     !.statuses = <<st>>,
                     !.pc = IF DeleteRaises(st) THEN "raised" ELSE "get"]
    /\ UNCHANGED <<auth_calls, init_args, auth, call, lst, server, machine, mcall, poll, sessions,
                   DEFAULT_HEADERS, KNOWN_LOCATIONS, me_log>>

\* delete_metadata_at_key(key): DELETE self.path + '/metadata/' + key
delete_metadata_at_key(key) ==
    MetadataDelete("delete_metadata_at_key", key, <<"metadata", key>>)

\* delete_all_metadata(): DELETE self.path + '/metadata'
delete_all_metadata ==
    MetadataDelete("delete_all_metadata", "", <<"metadata">>)

\* get_metadata(): GET self.path + '/metadata'; the answer is cached and
\* returned, unless request() raises. It is called on its own, or as the
\* `return self.get_metadata()` that ends either delete.
get_metadata ==
    /\ mop.pc \in {"get", "idle", "returned", "raised"}
    /\ \E st \in Statuses \cup {0}, j \in Metadatas :
          LET f == IF mop.pc = "get" THEN mop
                   ELSE [IdleMop EXCEPT !.op = "get_metadata",
                                        !.before = machine.metadata]
          IN  /\ mop' = [f EXCEPT
                            !.reqs = Append(@, [method |-> "GET",
                                                path |-> path(machine) \o <<"metadata">>]),
                            !.statuses = Append(@, st),
                            !.got = IF RequestRaises(st) THEN @ ELSE j,
                            !.pc = IF RequestRaises(st) THEN "raised" ELSE "returned"]
              /\ machine' = IF RequestRaises(st) THEN machine
                            ELSE [machine EXCEPT !.metadata = j]
    /\ UNCHANGED <<auth_calls, init_args, auth, call, lst, server, mcall, poll, sessions,
                   DEFAULT_HEADERS, KNOWN_LOCATIONS, me_log>>

-----------------------------------------------------------------------------
(* Machine.set_boot_script and Machine.delete_boot_script. The frame is    *)
(* mop: script is the text read from the file, boot_before is history, the *)
(* boot_script cached when the call began.                                 *)

\* The texts of the files a boot script is uploaded from.
Scripts == {"s1", "s3", ""}

BootScriptRaises_RequestOnly(st) == RequestRaises(st)

\* j, r = self.datacenter.request(...); r.raise_for_status()
BootScriptRaises(st) == RequestRaises(st) \/ RaisesForStatus(st)

\* set_boot_script(filename): the file is read (open() raises for a file that
\* cannot be read, before anything is sent), its text is POSTed as
\* user-script, and cached once raise_for_status() has passed.
set_boot_script ==
    /\ mop.pc \in {"idle", "returned", "raised"}
    /\ \E readable \in BOOLEAN, text \in Scripts, st \in Statuses \cup {0} :
          IF ~readable
          THEN /\ mop' = [IdleMop EXCEPT !.op = "set_boot_script",
                                         !.boot_before = machine.boot_script,
                                         !.pc = "raised"]
               /\ UNCHANGED machine
          ELSE /\ mop' = [IdleMop EXCEPT
                             !.op = "set_boot_script",
                             !.boot_before = machine.boot_script,
                             !.script = StrV(text),
                             !.reqs = <<[method |-> "POST",
                                         path |-> path(machine) \o <<"metadata">>]>>,
                             !.statuses = <<st>>,
                             !.pc = IF BootScriptRaises(st) THEN "raised" ELSE "returned"]
               /\ machine' = IF BootScriptRaises(st) THEN machine
                             ELSE [machine EXCEPT !.boot_script = StrV(text)]
    /\ UNCHANGED <<auth_calls, init_args, auth, call, lst, server, mcall, poll, sessions,
                   DEFAULT_HEADERS, KNOWN_LOCATIONS, me_log>>

\* delete_boot_script(): DELETE self.path + '/metadata/user-script', then
\* self.boot_script = None once raise_for_status() has passed.
delete_boot_script ==
    /\ mop.pc \in {"idle", "returned", "raised"}
    /\ \E st \in Statuses \cup {0} :
          /\ mop' = [IdleMop EXCEPT
                        !.op = "delete_boot_script",
                        !.boot_before = machine.boot_script,
                        !.reqs = <<[method |-> "DELETE",
                                    path |-> path(machine) \o
                                             <<"metadata", "user-script">>]>>,
                        !.statuses = <<st>>,
                        !.pc = IF BootScriptRaises(st) THEN "raised" ELSE "returned"]
          /\ machine' = IF BootScriptRaises(st) THEN machine
                        ELSE [machine EXCEPT !.boot_script = NoneV]
    /\ UNCHANGED <<auth_calls, init_args, auth, call, lst, server, mcall, poll, sessions,
                   DEFAULT_HEADERS, KNOWN_LOCATIONS, me_log>>

-----------------------------------------------------------------------------
(* The Machine methods that send one request and cache nothing of the      *)
(* answer, update_metadata, and the two methods that build Snapshots.      *)

SnapshotNames == {"snap1"}

\* The answers to these requests, one of each kind: none (the transport
\* failed), success, a client error request() raises for, the 499 it lets
\* through, a server error.
MachineAnswers == {0, 200, 404, 499, 500}

\* Each method with the request it sends, as the suffix it adds to self.path,
\* and whether it calls r.raise_for_status() on the answer.
MachineRequests ==
    {[op |-> "stop", method |-> "POST", suffix |-> <<>>, checks |-> TRUE],
     [op |-> "start", method |-> "POST", suffix |-> <<>>, checks |-> TRUE],
     [op |-> "reboot", method |-> "POST", suffix |-> <<>>, checks |-> TRUE],
     [op |-> "resize", method |-> "POST", suffix |-> <<>>, checks |-> TRUE],
     [op |-> "delete", method |-> "DELETE", suffix |-> <<>>, checks |-> TRUE],
     [op |-> "get_tags", method |-> "GET", suffix |-> <<"tags">>, checks |-> FALSE],
     [op |-> "add_tags", method |-> "POST", suffix |-> <<"tags">>, checks |-> FALSE],
     [op |-> "delete_all_tags", method |-> "DELETE", suffix |-> <<"tags">>, checks |-> TRUE]}
    \cup {[op |-> "get_tag", method |-> "GET", suffix |-> <<"tags", tag>>,
           checks |-> FALSE] : tag \in {"role"}}
    \cup {[op |-> "delete_tag", method |-> "DELETE", suffix |-> <<"tags", tag>>,
           checks |-> TRUE] : tag \in {"role"}}
    \cup {[op |-> "raw_snapshot_data", method |-> "GET", suffix |-> <<"snapshots", name>>,
           checks |-> FALSE] : name \in SnapshotNames}
    \cup {[op |-> "start_from_snapshot", method |-> "POST",
           suffix |-> <<"snapshots", name>>, checks |-> TRUE] : name \in SnapshotNames}

\* One of these methods is called: its request goes to self.path + suffix.
machine_request ==
    /\ mop.pc \in {"idle", "returned", "raised"}
    /\ \E m \in MachineRequests, st \in MachineAnswers :
          mop' = [IdleMop EXCEPT
                     !.op = m.op,
                     !.reqs = <<[method |-> m.method, path |-> path(machine) \o m.suffix]>>,
                     !.statuses = <<st>>,
                     !.pc = IF RequestRaises(st) \/ (m.checks /\ RaisesForStatus(st))
                            THEN "raised" ELSE "returned"]
    /\ UNCHANGED <<auth_calls, init_args, auth, call, lst, server, machine, mcall, poll,
                   sessions, DEFAULT_HEADERS, KNOWN_LOCATIONS, me_log>>

\* A snapshot record of the API, and the bodies request() may return to the
\* snapshot calls: none, an error document, an empty object, a record in
\* full, a record of no more than its name, raw text.
SnapshotDocument(name) ==
    [name |-> StrV(name), state |-> StrV("created"),
     created |-> TimeV("2013-03-01T00:00:00", "00:00"),
     updated |-> TimeV("2013-03-01T00:00:00", "00:00")]

SnapshotBodies ==
    {NoneV, DictV(ErrorDocument), DictV(EmptyDict), DictV(SnapshotDocument("snap1")),
     DictV([name |-> StrV("snap1")]), StrV("oops")}

\* ... and the lists GET snapshots may answer.
SnapshotLists ==
    {ListV(<<>>),
     ListV(<<DictV(SnapshotDocument("snap1"))>>),
     ListV(<<DictV([name |-> StrV("snap1")]), DictV(SnapshotDocument("snap2"))>>),
     ListV(<<DictV(SnapshotDocument("snap1")), DictV(ErrorDocument)>>)}

\* Snapshot._save(data) raises: data.get on a value that is no dict, or
\* dt_time(None) for a missing 'created' or 'updated'.
SnapshotSaveRaises(data) ==
    \/ data.t # "dict"
    \/ ~({"created", "updated"} \subseteq DOMAIN data.v)

\* Snapshot(machine, name, data), up to the point where it returns, raises
\* or waits for raw_snapshot_data: self.name = name or data.pop('name');
\* if not data: data = self.machine.raw_snapshot_data(self.name);
\* self._save(data)
Snapshot(name, data) ==
    IF ~Truthy(name) /\ ~(data.t = "dict" /\ "name" \in DOMAIN data.v)
    THEN [outcome |-> "raised", name |-> ""]
    ELSE LET nm == IF Truthy(name) THEN name.v ELSE data.v["name"].v
             rest == IF Truthy(name) THEN data ELSE DictV(Without(data.v, "name"))
         IN  IF ~Truthy(rest) THEN [outcome |-> "fetch", name |-> nm]
             ELSE IF SnapshotSaveRaises(rest) THEN [outcome |-> "raised", name |-> nm]
             ELSE [outcome |-> "saved", name |-> nm]

\* What `for s in j` yields: the items of a list, the keys of a dict, the
\* characters of raw text.
Items(j) ==
    CASE j.t = "list" -> j.v
      [] j.t = "dict" -> IF DOMAIN j.v = {} THEN <<>>
                         ELSE <<StrV(CHOOSE k \in DOMAIN j.v : TRUE)>>
      [] j.t = "str" -> <<StrV("o")>>

\* [Snapshot(machine=self, data=s) for s in items], in the frame f: it goes
\* on to the end of the list, to the first Snapshot that raises, or to the
\* first that waits for its own record.
RECURSIVE SnapshotsLoop(_, _)
SnapshotsLoop(f, items) ==
    IF items = <<>> THEN [f EXCEPT !.pc = "returned", !.todo = <<>>, !.name = ""]
    ELSE LET o == Snapshot(NoneV, Head(items))
         IN  CASE o.outcome = "raised" ->
                     [f EXCEPT !.pc = "raised", !.todo = <<>>, !.name = ""]
               [] o.outcome = "fetch" ->
                     [f EXCEPT !.pc = "fetch", !.todo = Tail(items), !.name = o.name]
               [] OTHER -> SnapshotsLoop(f, Tail(items))

\* snapshots(): GET self.path + '/snapshots', then a Snapshot of every item
\* of the answer.
snapshots ==
    /\ mop.pc \in {"idle", "returned", "raised"}
    /\ \E st \in MachineAnswers, j \in SnapshotBodies \cup SnapshotLists :
          LET f == [IdleMop EXCEPT
                       !.op = "snapshots",
                       !.reqs = <<[method |-> "GET",
                                   path |-> path(machine) \o <<"snapshots">>]>>,
                       !.statuses = <<st>>]
          IN  mop' = IF RequestRaises(st) \/ j.t = "none"
                     THEN [f EXCEPT !.pc = "raised"]
                     ELSE SnapshotsLoop(f, Items(j))
    /\ UNCHANGED <<auth_calls, init_args, auth, call, lst, server, machine, mcall, poll,
                   sessions, DEFAULT_HEADERS, KNOWN_LOCATIONS, me_log>>

\* create_snapshot(name): POST self.path + '/snapshots', then
\* Snapshot(machine=self, data=j, name=name).
create_snapshot ==
    /\ mop.pc \in {"idle", "returned", "raised"}
    /\ \E name \in SnapshotNames, st \in MachineAnswers, j \in SnapshotBodies :
          LET f == [IdleMop EXCEPT
                       !.op = "create_snapshot",
                       !.reqs = <<[method |-> "POST",
                                   path |-> path(machine) \o <<"snapshots">>]>>,
                       !.statuses = <<st>>]
              o == Snapshot(StrV(name), j)
          IN  mop' = IF RequestRaises(st) \/ o.outcome = "raised"
                     THEN [f EXCEPT !.pc = "raised"]
                     ELSE IF o.outcome = "fetch"
                     THEN [f EXCEPT !.pc = "fetch", !.name = o.name]
                     ELSE [f EXCEPT !.pc = "returned"]
    /\ UNCHANGED <<auth_calls, init_args, auth, call, lst, server, machine, mcall, poll,
                   sessions, DEFAULT_HEADERS, KNOWN_LOCATIONS, me_log>>

\* snapshot(name): Snapshot(machine=self, name=name), which has no data and
\* fetches its record.
snapshot ==
    /\ mop.pc \in {"idle", "returned", "raised"}
    /\ \E name \in SnapshotNames :
          mop' = [IdleMop EXCEPT !.op = "snapshot", !.pc = "fetch",
                                 !.name = Snapshot(StrV(name), NoneV).name]
    /\ UNCHANGED <<auth_calls, init_args, auth, call, lst, server, machine, mcall, poll,
                   sessions, DEFAULT_HEADERS, KNOWN_LOCATIONS, me_log>>

\* The raw_snapshot_data(self.name) of a Snapshot under construction:
\* GET self.path + '/snapshots/' + name; the answer goes to _save, and the
\* list of snapshots() goes on.
Snapshot_fetch ==
    /\ mop.pc = "fetch"
    /\ \E st \in MachineAnswers, data \in SnapshotBodies :
          LET f == [mop EXCEPT
                       !.reqs = Append(@, [method |-> "GET",
                                           path |-> path(machine) \o
                                                    <<"snapshots", mop.name>>]),
                       !.statuses = Append(@, st)]
          IN  mop' = IF RequestRaises(st) \/ SnapshotSaveRaises(data)
                     THEN [f EXCEPT !.pc = "raised", !.todo = <<>>, !.name = ""]
                     ELSE SnapshotsLoop(f, mop.todo)
    /\ UNCHANGED <<auth_calls, init_args, auth, call, lst, server, machine, mcall, poll,
                   sessions, DEFAULT_HEADERS, KNOWN_LOCATIONS, me_log>>

\* update_metadata(**kwargs): POST self.path + '/metadata'; self.metadata = j
update_metadata ==
    /\ mop.pc \in {"idle", "returned", "raised"}
    /\ \E st \in MachineAnswers, j \in Metadatas :
          /\ mop' = [IdleMop EXCEPT
                        !.op = "update_metadata",
                        !.before = machine.metadata,
                        !.reqs = <<[method |-> "POST",
                                    path |-> path(machine) \o <<"metadata">>]>>,
                        !.statuses = <<st>>,
                        !.got = IF RequestRaises(st) THEN @ ELSE j,
                        !.pc = IF RequestRaises(st) THEN "raised" ELSE "returned"]
          /\ machine' = IF RequestRaises(st) THEN machine
                        ELSE [machine EXCEPT !.metadata = j]
    /\ UNCHANGED <<auth_calls, init_args, auth, call, lst, server, mcall, poll, sessions,
                   DEFAULT_HEADERS, KNOWN_LOCATIONS, me_log>>

-----------------------------------------------------------------------------
(* Values of the parts a specification does not exercise.                  *)

NoServer == [count |-> 0, limit |-> 1, record |-> EmptyDict, states |-> <<>>]
NoMachine == NewMachine("none")
NoPoll == IdlePoll
NoMop == IdleMop

\* The session the listing and Machine specifications run in.
DefaultSession == [key_id |-> StrV("kid"), secret |-> StrV("~/.ssh/id_rsa"),
                   allow_agent |-> FALSE, agent_keys |-> 0, login |-> NoneV]

\* The session objects and module-level dicts that go with DefaultSession.
OneSession ==
    /\ sessions = <<Session("DataCenter", NoneV, NoneV, TRUE, 1, 0)>>
    /\ DEFAULT_HEADERS = InitHeaders(ImportedHeaders, "DataCenter", NoneV)
    /\ KNOWN_LOCATIONS = ImportedLocations

-----------------------------------------------------------------------------
(* Spec: one session, one caller at a time.                                *)

Init ==
    /\ \E k \in KeyIds, s \in Secrets, ag \in BOOLEAN, n \in 0..MaxAgentKeys :
          /\ \E login \in Logins :
                /\ init_args = [key_id |-> k, secret |-> s, allow_agent |-> ag,
                                agent_keys |-> n, login |-> login]
                /\ sessions = <<Session("DataCenter", NoneV, login, TRUE,
                                        IF InitAuth(k, s, ag, n).present THEN 1 ELSE 0, 0)>>
          /\ auth = <<InitAuth(k, s, ag, n)>>
    /\ DEFAULT_HEADERS = InitHeaders(ImportedHeaders, "DataCenter", NoneV)
    /\ KNOWN_LOCATIONS = ImportedLocations
    /\ mop = NoMop
    /\ me_log = <<>>
    /\ auth_calls = <<>>
    /\ call = [c \in Callers |-> IdleFrame]
    /\ lst = IdleListing
    /\ server = NoServer
    /\ machine = NoMachine
    /\ mcall = NoFetch
    /\ poll = NoPoll

Next ==
    \/ request_call(1)
    \/ request_dispatch(1)
    \/ request_transport_error(1)
    \/ request_response(1)
    \/ request_swap(1)

Spec == Init /\ [][Next]_vars

-----------------------------------------------------------------------------
(* SpecMe: one session, constructed with or without a login, whose caller  *)
(* fetches the account record with me().                                   *)

InitMe ==
    /\ \E ag \in BOOLEAN, login \in Logins :
          /\ init_args = [DefaultSession EXCEPT !.allow_agent = ag, !.agent_keys = 1,
                                                !.login = login]
          /\ auth = <<InitAuth(DefaultSession.key_id, DefaultSession.secret, ag, 1)>>
          /\ sessions = <<Session("DataCenter", NoneV, login, TRUE, 1, 0)>>
    /\ DEFAULT_HEADERS = InitHeaders(ImportedHeaders, "DataCenter", NoneV)
    /\ KNOWN_LOCATIONS = ImportedLocations
    /\ call = [c \in Callers |-> IdleFrame]
    /\ lst = IdleListing
    /\ server = NoServer
    /\ machine = NoMachine
    /\ mcall = NoFetch
    /\ poll = NoPoll
    /\ mop = NoMop
    /\ me_log = <<>>
    /\ auth_calls = <<>>

NextMe ==
    \/ me_call(1)
    \/ request_dispatch(1)
    \/ request_transport_error(1)
    \/ request_response(1)
    \/ request_swap(1)
    \/ me_return(1)

SpecMe == InitMe /\ [][NextMe]_vars

-----------------------------------------------------------------------------
(* SpecRace: one session whose two callers are inside request() with no    *)
(* order between their steps (two threads sharing the session object).     *)

InitRace ==
    /\ init_args = [DefaultSession EXCEPT !.allow_agent = TRUE,
                                          !.agent_keys = MaxAgentKeys]
    /\ auth = <<InitAuth(DefaultSession.key_id, DefaultSession.secret, TRUE, MaxAgentKeys)>>
    /\ OneSession
    /\ call = [c \in Callers |-> IdleFrame]
    /\ lst = IdleListing
    /\ server = NoServer
    /\ machine = NoMachine
    /\ mcall = NoFetch
    /\ poll = NoPoll
    /\ mop = NoMop
    /\ me_log = <<>>
    /\ auth_calls = <<>>

\* The responses of every status, without a body.
BareResponses == {r \in Responses : r.content = "" /\ r.ctype = "text/plain"}

NextRace ==
    \E c \in Callers :
        \/ request_call(c)
        \/ request_dispatch_answers(c, BareResponses)
        \/ request_transport_error(c)
        \/ request_response(c)
        \/ request_swap(c)

SpecRace == InitRace /\ [][NextRace]_vars

-----------------------------------------------------------------------------
(* SpecCreate: one session whose caller creates machines.                  *)

InitCreate ==
    /\ \E ag \in BOOLEAN :
          /\ init_args = [DefaultSession EXCEPT !.allow_agent = ag, !.agent_keys = 1]
          /\ auth = <<InitAuth(DefaultSession.key_id, DefaultSession.secret, ag, 1)>>
    /\ OneSession
    /\ call = [c \in Callers |-> IdleFrame]
    /\ lst = IdleListing
    /\ server = NoServer
    /\ machine = NoMachine
    /\ mcall = NoFetch
    /\ poll = NoPoll
    /\ mop = NoMop
    /\ me_log = <<>>
    /\ auth_calls = <<>>

NextCreate ==
    \/ create_machine_call(1)
    \/ request_dispatch(1)
    \/ request_transport_error(1)
    \/ request_response(1)
    \/ request_swap(1)
    \/ create_machine_return(1)

SpecCreate == InitCreate /\ [][NextCreate]_vars

-----------------------------------------------------------------------------
(* SpecListing: the listing accessors of one session against one server.   *)

InitListing ==
    /\ init_args = DefaultSession
    /\ OneSession
    /\ mop = NoMop
    /\ me_log = <<>>
    /\ auth_calls = <<>>
    /\ auth = <<InitAuth(DefaultSession.key_id, DefaultSession.secret, FALSE, 0)>>
    /\ call = [c \in Callers |-> IdleFrame]
    /\ lst = IdleListing
    /\ \E n \in 0..MaxCount, l \in 1..MaxLimit :
          server = [NoServer EXCEPT !.count = n, !.limit = l]
    /\ machine = NoMachine
    /\ mcall = NoFetch
    /\ poll = NoPoll

NextListing ==
    \/ machines_call
    \/ machines_page
    \/ machines_request_raises
    \/ packages_call
    \/ images_call

SpecListing == InitListing /\ [][NextListing]_vars

-----------------------------------------------------------------------------
(* SpecLookup: the single-request accessors of one session.                *)

InitLookup ==
    /\ init_args = DefaultSession
    /\ OneSession
    /\ mop = NoMop
    /\ me_log = <<>>
    /\ auth_calls = <<>>
    /\ auth = <<InitAuth(DefaultSession.key_id, DefaultSession.secret, FALSE, 0)>>
    /\ call = [c \in Callers |-> IdleFrame]
    /\ lst = IdleListing
    /\ server = NoServer
    /\ machine = NoMachine
    /\ mcall = NoFetch
    /\ poll = NoPoll

NextLookup ==
    \/ dataset_call
    \/ package_call
    \/ num_machines_call
    \/ networks_call

SpecLookup == InitLookup /\ [][NextLookup]_vars

-----------------------------------------------------------------------------
(* SpecMachine: a Machine built from a record, then refreshed.             *)

InitMachine ==
    /\ init_args = DefaultSession
    /\ OneSession
    /\ mop = NoMop
    /\ me_log = <<>>
    /\ auth_calls = <<>>
    /\ auth = <<InitAuth(DefaultSession.key_id, DefaultSession.secret, FALSE, 0)>>
    /\ call = [c \in Callers |-> IdleFrame]
    /\ lst = IdleListing
    /\ server = NoServer
    /\ \E data \in Records :
          /\ machine = Machine("m1", data)
          /\ mcall = [outcome |-> "ok", data |-> data, path |-> <<>>]
    /\ poll = NoPoll

NextMachine ==
    \/ refresh
    \/ refresh_raises

SpecMachine == InitMachine /\ [][NextMachine]_vars

-----------------------------------------------------------------------------
(* SpecMetadata: a Machine built from a record, whose metadata is deleted. *)

InitMetadata ==
    /\ init_args = DefaultSession
    /\ OneSession
    /\ me_log = <<>>
    /\ auth_calls = <<>>
    /\ auth = <<InitAuth(DefaultSession.key_id, DefaultSession.secret, FALSE, 0)>>
    /\ call = [c \in Callers |-> IdleFrame]
    /\ lst = IdleListing
    /\ server = NoServer
    /\ \E md \in Metadatas :
          LET data == Put(MachineRecord(StrV("web1"), StrV("running"), IntV(512),
                                        TimeV("2013-01-01T00:00:00", "00:00")),
                          "metadata", md)
          IN  /\ machine = Machine("m1", data)
              /\ mcall = [outcome |-> "ok", data |-> data, path |-> <<>>]
    /\ poll = NoPoll
    /\ mop = IdleMop

NextMetadata ==
    \/ \E key \in MetadataKeys : delete_metadata_at_key(key)
    \/ delete_all_metadata
    \/ get_metadata

SpecMetadata == InitMetadata /\ [][NextMetadata]_vars

-----------------------------------------------------------------------------
(* SpecBootScript: the same Machine, whose boot script is set and deleted. *)

NextBootScript ==
    \/ set_boot_script
    \/ delete_boot_script

SpecBootScript == InitMetadata /\ [][NextBootScript]_vars

-----------------------------------------------------------------------------
(* SpecPoll: poll_until on a Machine whose server goes through a sequence  *)
(* of states.                                                              *)

PollRecords ==
    { Put(MachineRecord(StrV("web1"), st, IntV(512), TimeV("2013-01-01T00:00:00", "00:00")),
          "metadata", [role |-> StrV("web")]) : st \in MachineStates }

InitPoll ==
    /\ init_args = DefaultSession
    /\ OneSession
    /\ mop = NoMop
    /\ me_log = <<>>
    /\ auth_calls = <<>>
    /\ auth = <<InitAuth(DefaultSession.key_id, DefaultSession.secret, FALSE, 0)>>
    /\ call = [c \in Callers |-> IdleFrame]
    /\ lst = IdleListing
    /\ \E data \in PollRecords, seq \in StateSeqs :
          /\ server = [NoServer EXCEPT !.record = data, !.states = seq]
          /\ machine = Machine("m1", data)
          /\ mcall = [outcome |-> "ok", data |-> data, path |-> <<>>]
    /\ poll = IdlePoll

NextPoll ==
    \/ poll_until_call
    \/ poll_status
    \/ poll_status_save_raises
    \/ poll_status_raises
    \/ poll_sleep

SpecPoll == InitPoll /\ [][NextPoll]_vars

\* SpecPollFair: SpecPoll with the scheduling of the one thread that runs
\* poll_until: a poll that is due is made (and answered or failed), a sleep
\* that is due ends.
SpecPollFair ==
    /\ InitPoll /\ [][NextPoll]_vars
    /\ WF_vars(poll_until_call)
    /\ WF_vars(poll_status \/ poll_status_save_raises \/ poll_status_raises)
    /\ WF_vars(poll_sleep)

\* SpecPollWhile: the same Machine and server, polled with poll_while.
NextPollWhile ==
    \/ poll_while_call
    \/ poll_status
    \/ poll_status_save_raises
    \/ poll_status_raises
    \/ poll_sleep

SpecPollWhile == InitPoll /\ [][NextPollWhile]_vars

-----------------------------------------------------------------------------
(* SpecMachineId: a Machine constructed with an id and the methods of it   *)
(* that send requests, the Snapshot constructors they call included; the   *)
(* records the server answers may carry any id.                            *)
(* (set_boot_script, whose request is update_metadata's, runs under        *)
(* SpecBootScript.)                                                        *)

MachineIds == {"m1", "m2"}

\* The records the server answers the fetches with: the machine stopped and
\* without an id and with either id; and an error document.
IdRecords ==
    LET bare == {r \in PollRecords : r["state"] = StrV("stopped")}
    IN  bare \cup {Put(r, "id", StrV(i)) : r \in bare, i \in MachineIds}

IdAnswers == IdRecords \cup {ErrorDocument}

InitMachineId ==
    /\ init_args = DefaultSession
    /\ OneSession
    /\ mop = NoMop
    /\ me_log = <<>>
    /\ auth_calls = <<>>
    /\ auth = <<InitAuth(DefaultSession.key_id, DefaultSession.secret, FALSE, 0)>>
    /\ call = [c \in Callers |-> IdleFrame]
    /\ lst = IdleListing
    /\ server = NoServer
    /\ \E id \in MachineIds, data \in IdRecords :
          /\ machine = Machine(id, data)
          /\ mcall = [outcome |-> "ok", data |-> data, path |-> <<>>]
    /\ poll = NoPoll

NextMachineId ==
    \/ refresh_from(IdAnswers)
    \/ refresh_raises
    \/ machine_request
    \/ snapshots
    \/ create_snapshot
    \/ snapshot
    \/ Snapshot_fetch
    \/ update_metadata
    \/ \E key \in MetadataKeys : delete_metadata_at_key(key)
    \/ delete_all_metadata
    \/ get_metadata
    \/ delete_boot_script

SpecMachineId == InitMachineId /\ [][NextMachineId]_vars

-----------------------------------------------------------------------------
(* SpecSession: sessions constructed by the user and derived from one      *)
(* another; the module-level dicts start as the import leaves them.        *)

InitSession ==
    /\ init_args = [DefaultSession EXCEPT !.agent_keys = 1]
    /\ auth = <<>>
    /\ sessions = <<>>
    /\ DEFAULT_HEADERS = ImportedHeaders
    /\ KNOWN_LOCATIONS = ImportedLocations
    /\ call = [c \in Callers |-> IdleFrame]
    /\ lst = IdleListing
    /\ server = NoServer
    /\ machine = NoMachine
    /\ mcall = NoFetch
    /\ poll = NoPoll
    /\ mop = NoMop
    /\ me_log = <<>>
    /\ auth_calls = <<>>

NextSession ==
    \/ Finished(call[1]) /\ construct
    \/ \E p \in 1..MaxSessions, name \in Names : datacenter(1, p, name)
    \/ \E p \in 1..MaxSessions : datacenters_call(1, p)
    \/ request_dispatch_answers(1, LocationResponses)
    \/ request_transport_error(1)
    \/ request_response(1)
    \/ request_swap(1)
    \/ datacenters_return(1)

SpecSession == InitSession /\ [][NextSession]_vars

-----------------------------------------------------------------------------
(* SpecAuthenticate: sessions are constructed, derived (under names that   *)
(* need no lookup) and authenticated.                                      *)

NextAuthenticate ==
    \/ construct
    \/ \E p \in 1..MaxSessions, name \in DirectNames : datacenter(1, p, name)
    \/ \E s \in 1..MaxSessions, key_id \in KeyIds, secret \in Secrets,
          allow_agent \in BOOLEAN : authenticate(s, key_id, secret, allow_agent)

SpecAuthenticate == InitSession /\ [][NextAuthenticate]_vars

-----------------------------------------------------------------------------
(* SpecShared: a session with a credential, the sessions derived from it,  *)
(* authenticate() on any of them, and one caller making requests on any of *)
(* them, one call after the other.                                         *)

InitShared ==
    /\ \E ag \in BOOLEAN :
          /\ init_args = [DefaultSession EXCEPT !.allow_agent = ag, !.agent_keys = 2]
          /\ auth = <<InitAuth(DefaultSession.key_id, DefaultSession.secret, ag, 2)>>
    /\ OneSession
    /\ call = [c \in Callers |-> IdleFrame]
    /\ lst = IdleListing
    /\ server = NoServer
    /\ machine = NoMachine
    /\ mcall = NoFetch
    /\ poll = NoPoll
    /\ mop = NoMop
    /\ me_log = <<>>
    /\ auth_calls = <<>>

NextShared ==
    \/ \E p \in 1..MaxSessions, name \in Names : datacenter(1, p, name)
    \/ \E p \in 1..MaxSessions : datacenters_call(1, p)
    \/ datacenters_return(1)
    \/ \E s \in 1..MaxSessions, key_id \in KeyIds, allow_agent \in BOOLEAN :
          authenticate(s, key_id, DefaultSession.secret, allow_agent)
    \/ \E s \in 1..MaxSessions : session_request_call(1, s)
    \/ request_dispatch_answers(1, LocationResponses)
    \/ request_transport_error(1)
    \/ request_response(1)
    \/ request_swap(1)

SpecShared == InitShared /\ [][NextShared]_vars

-----------------------------------------------------------------------------
(* Claims about DataCenter.request, checked under Spec.                    *)

\* The credential has an agent key to swap to.
AgentKeyAvailable == auth[1].present /\ auth[1].agent_key # 0

\* C1 (as stated): one request() call sends at most 2 HTTP requests and swaps
\* the credential source at most once, however many agent keys exist.
C1_AtMostOneRetry ==
    \A c \in Callers : Len(call[c].sent) <= 2 /\ call[c].swaps <= 1

\* C2: a 401 answered while no agent key is available ends the call at once:
\* the next step of request() raises the HTTP error for the 401, with no swap
\* and no further request.
C2_NoAgentKeyNoRetry ==
    [][\A c \in Callers :
          (/\ call[c].pc = "response"
           /\ call[c].resp.status = 401
           /\ ~AgentKeyAvailable
           /\ call'[c] # call[c])
          => /\ call'[c].pc = "raised"
             /\ call'[c].result.kind = "HTTPError"
             /\ call'[c].result.status = 401
             /\ call'[c].sent = call[c].sent
             /\ call'[c].swaps = call[c].swaps
             /\ auth' = auth]_vars

\* A call of a session with a file-based credential and no agent key has
\* failed on its first 401.
C2_Witness ==
    \E c \in Callers :
        /\ auth[1].present /\ auth[1].agent_key = 0
        /\ call[c].pc = "raised"
        /\ call[c].result.kind = "HTTPError"
        /\ call[c].result.status = 401
        /\ Len(call[c].sent) = 1
        /\ call[c].swaps = 0

\* C3: a session constructed without key_id or with an empty secret has no
\* credential; its requests are dispatched unsigned, nothing is raised before
\* the dispatch, and whatever the answer (a 401 included) the call has sent
\* exactly one request and swapped nothing.
C3_UnsetCredentialStillDispatches ==
    /\ (~Truthy(init_args.key_id) \/ ~Truthy(init_args.secret)) => ~auth[1].present
    /\ ~auth[1].present =>
          \A c \in Callers :
              /\ call[c].swaps = 0
              /\ \A i \in 1..Len(call[c].sent) : call[c].sent[i].src = "unsigned"
              /\ call[c].pc = "dispatch" => call[c].sent = <<>>
              /\ call[c].pc \in {"response", "returned", "raised"}
                    => Len(call[c].sent) = 1

\* An uncredentialed call was answered 401 and has raised after one unsigned
\* request.
C3_Witness ==
    \E c \in Callers :
        /\ ~Truthy(init_args.secret) /\ Truthy(init_args.key_id)
        /\ ~auth[1].present
        /\ call[c].pc = "raised"
        /\ call[c].resp.status = 401
        /\ call[c].sent = <<[src |-> "unsigned", key |-> 0]>>

\* C4 (as stated): no response with a status in 400..499 is returned to the
\* caller as a (decoded body, response) pair.
C4_ClientErrorNeverReturned ==
    \A c \in Callers :
        call[c].pc = "returned"
            => ~(400 <= call[c].resp.status /\ call[c].resp.status <= 499)

-----------------------------------------------------------------------------
(* Claims about the listing accessors, checked under SpecListing.          *)

\* ceil(n / l), at least 1
PagesNeeded(n, l) == IF n = 0 THEN 1 ELSE (n + l - 1) \div l

\* A machines() call that collects (paged unset), with no limit or offset of
\* the caller's, whose requests were all answered.
CollectingCall ==
    /\ lst.accessor = "machines"
    /\ ~Truthy(lst.args.paged)
    /\ lst.args.limit = NoneV /\ lst.args.offset = NoneV
    /\ lst.pc \in {"returned", "raised"}
    /\ lst.result.kind \notin {"HTTPError", "KeyError"}

\* C5 (as stated): a non-paged machines() call against a server reporting
\* count N and page size L returns, after max(1, ceil(N/L)) requests with the
\* offsets 0, L, 2L, ..., the N machines in server order.
C5_NonPagedCollectsAll ==
    CollectingCall =>
        /\ lst.pc = "returned"
        /\ Len(lst.reqs) = PagesNeeded(server.count, server.limit)
        /\ \A i \in 1..Len(lst.reqs) :
              Get(lst.reqs[i].params, "offset", IntV(0)).v = (i - 1) * server.limit
        /\ lst.result.value = [i \in 1..server.count |-> i]

\* C6: machines(paged=True) sends one request and returns the entries of that
\* one response, in the server's order, whatever count and page size the
\* server reports; it never reaches the continuation branch.
C6_PagedSingleRequest ==
    (lst.accessor = "machines" /\ Truthy(lst.args.paged)) =>
        /\ Len(lst.reqs) <= 1
        /\ lst.result.kind # "NameError"
        /\ lst.pc = "returned" =>
              /\ Len(lst.reqs) = 1
              /\ lst.result.value = ServerPage(lst.reqs[1].params).entries

\* A paged call returned a first page shorter than what the server holds.
C6_Witness ==
    /\ lst.accessor = "machines" /\ Truthy(lst.args.paged)
    /\ lst.pc = "returned"
    /\ Len(lst.reqs) = 1
    /\ server.count > server.limit
    /\ lst.args.limit = NoneV
    /\ Len(lst.result.value) = server.limit

\* C7: machines, packages or images called with no option sends a request
\* with an empty query: no key at all, not the internal limit 1000 or offset 0.
C7_NoOptionsNoParams ==
    (lst.accessor \in {"machines", "packages", "images"}
        /\ \A o \in DOMAIN lst.args : lst.args[o] = Default(o)) =>
        /\ lst.pc \in {"returned", "raised"} => Len(lst.reqs) = 1
        /\ \A i \in 1..Len(lst.reqs) : DOMAIN lst.reqs[i].params = {}

\* machines() without options has sent its request, which carries no key.
C7_Witness ==
    /\ lst.accessor = "machines"
    /\ \A o \in MachinesOptions : lst.args[o] = Default(o)
    /\ lst.limit = DefaultLimit /\ lst.offset = DefaultOffset
    /\ Len(lst.reqs) = 1
    /\ lst.reqs[1].params = EmptyDict

\* C8 (as stated): a query key is sent if and only if its option was passed
\* with a value other than the default, and it carries that value; each tag
\* passed travels under tag.<name>.
C8_SentIffSupplied ==
    (lst.accessor \in {"machines", "packages", "images"} /\ Len(lst.reqs) >= 1) =>
        LET p == lst.reqs[1].params IN
        /\ \A o \in DOMAIN lst.args \ {"paged", "tags"} :
              ParamKey(o) \in DOMAIN p <=> lst.args[o] # Default(o)
        /\ \A o \in DOMAIN lst.args \ {"paged", "tags", "dataset", "credentials"} :
              ParamKey(o) \in DOMAIN p => p[ParamKey(o)] = lst.args[o]
        /\ ("tags" \in DOMAIN lst.args /\ lst.args["tags"] # NoneV) =>
              \A k \in DOMAIN lst.args["tags"].v :
                  TagKey(k) \in DOMAIN p /\ p[TagKey(k)] = lst.args["tags"].v[k]

-----------------------------------------------------------------------------
(* Claims about Machine.refresh, checked under SpecMachine.                *)

\* The attributes of m that _save assigns before the times, the credentials
\* apart, are those the record d alone gives.
EarlyAttributesFrom(m, d) ==
    LET md == Get(d, "metadata", EmptyDict) IN
    /\ m.name = Get(d, "name", NoneV)
    /\ m.type = Get(d, "type", NoneV)
    /\ m.state = Get(d, "state", NoneV)
    /\ m.dataset = Get(d, "dataset", NoneV)
    /\ m.memory = Get(d, "memory", NoneV)
    /\ m.disk = Get(d, "disk", NoneV)
    /\ m.ips = Get(d, "ips", <<>>)
    /\ m.metadata = [k \in DOMAIN md \ {"credentials", "user-script"} |-> md[k]]
    /\ m.boot_script = Get(md, "user-script", NoneV)

\* The attributes of m other than the credentials are those the record d
\* alone gives.
AttributesFrom(m, d) ==
    /\ EarlyAttributesFrom(m, d)
    /\ m.created = d["created"].stamp
    /\ m.updated = d["updated"].stamp

\* Records d and e are the same but for their state.
DiffersOnlyInState(d, e) ==
    /\ DOMAIN d = DOMAIN e
    /\ \A k \in DOMAIN d \ {"state"} : d[k] = e[k]
    /\ d["state"] # e["state"]

\* C9 (as stated): after a refresh that returned every cached attribute, the
\* credentials included, is the one the last fetched record alone gives.
C9_FullReplace ==
    mcall.outcome = "ok" =>
        /\ AttributesFrom(machine, mcall.data)
        /\ machine.credentials = PoppedCredentials(mcall.data)

\* C9 (amended): a refresh that returns replaces every cached attribute but
\* the credentials by what the fetched record alone gives; the credentials
\* are the cached ones updated with the record's; and a record that differs
\* from the cached one only in state changes the state attribute only. A
\* refresh whose _save raises (the body lacks 'created' or 'updated') has
\* replaced the attributes assigned before the times and merged the
\* credentials the same way, and keeps the cached time it did not reach.
C9_RefreshReplacesAllButCredentials ==
    /\ [][(mcall' # mcall /\ mcall'.outcome = "ok") =>
          /\ AttributesFrom(machine', mcall'.data)
          /\ machine'.id = machine.id
          /\ machine'.credentials =
                [k \in DOMAIN machine.credentials \cup DOMAIN PoppedCredentials(mcall'.data) |->
                    IF k \in DOMAIN PoppedCredentials(mcall'.data)
                    THEN PoppedCredentials(mcall'.data)[k]
                    ELSE machine.credentials[k]]
          /\ DiffersOnlyInState(mcall.data, mcall'.data) =>
                machine' = [machine EXCEPT !.state = mcall'.data["state"]]]_vars
    /\ [][(mcall' # mcall /\ mcall'.outcome = "save_raised") =>
          /\ EarlyAttributesFrom(machine', mcall'.data)
          /\ machine'.id = machine.id
          /\ machine'.credentials =
                [k \in DOMAIN machine.credentials \cup DOMAIN PoppedCredentials(mcall'.data) |->
                    IF k \in DOMAIN PoppedCredentials(mcall'.data)
                    THEN PoppedCredentials(mcall'.data)[k]
                    ELSE machine.credentials[k]]
          /\ machine'.updated = machine.updated
          /\ machine'.created = IF "created" \in DOMAIN mcall'.data
                                THEN mcall'.data["created"].stamp
                                ELSE machine.created]_vars
    /\ [][(mcall' # mcall /\ mcall'.outcome = "raised") => machine' = machine]_vars

\* A refresh has replaced the metadata by a record's that carries no
\* credentials and no plain key, while the credentials of two earlier records
\* are still cached.
C9_Witness ==
    /\ mcall.outcome = "ok"
    /\ "metadata" \in DOMAIN mcall.data
    /\ DOMAIN mcall.data["metadata"] = {"user-script"}
    /\ machine.metadata = EmptyDict
    /\ machine.boot_script = StrV("s2")
    /\ DOMAIN machine.credentials = {"root", "admin"}

-----------------------------------------------------------------------------
(* Claims about Machine.poll_until, checked under SpecPoll.                *)

\* The state s is among those the server reports.
Reports(seq, s) == \E k \in 1..Len(seq) : seq[k] = s

\* The position of the first occurrence of s in seq.
FirstAt(seq, s) ==
    CHOOSE k \in 1..Len(seq) : seq[k] = s /\ \A j \in 1..(k - 1) : seq[j] # s

\* C10: poll_until(s) fetches once per poll and sleeps between polls; it goes
\* on while the states fetched so far differ from s and returns at the first
\* poll that fetches s, after k polls and k - 1 sleeps, k the position of the
\* first s in the server's sequence, with s as the cached state.
C10_PollUntilReturnsAtFirstMatch ==
    /\ poll.pc = "returned" =>
          /\ Reports(server.states, poll.target)
          /\ poll.polls = FirstAt(server.states, poll.target)
          /\ poll.sleeps = poll.polls - 1
          /\ machine.state = poll.target
    /\ poll.pc = "sleep" =>
          /\ poll.sleeps = poll.polls - 1
          /\ \A j \in 1..poll.polls : StateAt(server.states, j) # poll.target
    /\ poll.pc = "poll" =>
          /\ poll.sleeps = poll.polls
          /\ \A j \in 1..poll.polls : StateAt(server.states, j) # poll.target

\* poll_until('running') against provisioning, provisioning, running has
\* returned after 3 polls and 2 sleeps.
C10_Witness ==
    /\ server.states = <<StrV("provisioning"), StrV("provisioning"), StrV("running")>>
    /\ poll.target = StrV("running")
    /\ poll.pc = "returned"
    /\ poll.polls = 3
    /\ poll.sleeps = 2
    /\ machine.state = StrV("running")

-----------------------------------------------------------------------------
(* Claims about the session's login and DataCenter.me, checked under       *)
(* SpecMe.                                                                 *)

\* C11, as stated: a session constructed without a login has login 'my' until
\* the first successful me() whose response contains a login, and from then on
\* that login; a login supplied at construction stays the session's login.
C11_LoginPinned ==
    IF init_args.login = NoneV
    THEN sessions[1].login = IF me_log = <<>> THEN StrV("my") ELSE me_log[1]
    ELSE sessions[1].login = InitLogin(init_args.login)

\* The first login other than 'my' among the logins fetched so far, if any.
FirstNamed(log) ==
    LET named == SelectSeq(log, LAMBDA l : l # StrV("my"))
    IN  IF named = <<>> THEN StrV("my") ELSE named[1]

\* C11, amended: 'my' is the unset login wherever it comes from. A session
\* constructed without a login, with an empty one or with 'my' has login 'my'
\* until the first successful me() whose response contains a login other than
\* 'my', and from then on that login; any other login supplied at
\* construction stays the session's login.
C11_LoginPinnedUnlessMy ==
    IF InitLogin(init_args.login) = StrV("my")
    THEN sessions[1].login = FirstNamed(me_log)
    ELSE sessions[1].login = init_args.login

\* Two me() calls have fetched different logins from a session constructed
\* without one.
C11_Witness ==
    /\ init_args.login = NoneV
    /\ Len(me_log) = 2 /\ me_log[1] = StrV("alice") /\ me_log[2] = StrV("bob")
    /\ call[1].pc = "me_returned"

-----------------------------------------------------------------------------
(* Claims about DataCenter.datacenter, checked under SpecSession.          *)

\* C12: datacenter(name) returns a new session with the parent's default
\* headers, login, verify flag and credential and with location name, and
\* leaves the parent's location, login, default headers and credential as
\* they were, whatever the parent's class. (Parent and child name the same
\* headers dict, so the child's headers are the parent's; what can fail is
\* that the dict is still what it was.)
C12_DerivedKeepsParent ==
    [][LET n == Len(sessions')
       IN  (n = Len(sessions) + 1 /\ sessions'[n].parent # 0) =>
              LET child == sessions'[n]
                  p == child.parent
              IN  /\ child.location = child.given.v
                  /\ child.login = sessions[p].login
                  /\ child.verify = sessions[p].verify
                  /\ child.auth = sessions[p].auth
                  /\ sessions'[p] = sessions[p]
                  /\ DEFAULT_HEADERS' = DEFAULT_HEADERS]_vars

-----------------------------------------------------------------------------
(* Claims about what DataCenter.request changes and returns, checked under *)
(* Spec.                                                                   *)

\* A step of caller c inside request().
InRequest(c) == call[c].pc \in {"dispatch", "response", "swap"}

\* C13, as stated: request() mutates no local state. No step of it changes
\* the session's location or login, the default headers or a Machine's
\* attributes, and once the call is over the credential signs with the source
\* it signed the call's first request with.
C13_RequestMutatesNothing ==
    /\ [][\A c \in Callers : InRequest(c) =>
              /\ sessions' = sessions
              /\ DEFAULT_HEADERS' = DEFAULT_HEADERS
              /\ machine' = machine]_vars
    /\ [](\A c \in Callers :
              (call[c].pc \in {"returned", "raised"} /\ call[c].sent # <<>>) =>
                  SignedBy(auth[1]) = call[c].sent[1])

\* C13, amended: request() mutates no local state other than the credential's
\* active source. No step of it changes the session's location or login, the
\* default headers or a Machine's attributes; the credential changes only in
\* the step that follows a 401 answered while an agent key signs, by one
\* swap_keys();
\* so once the call is over the credential signs with the source it signed the
\* first request with exactly when the call swapped no key.
C13_RequestMutatesOnlyCredentialSource ==
    /\ [][\A c \in Callers : InRequest(c) =>
              /\ sessions' = sessions
              /\ DEFAULT_HEADERS' = DEFAULT_HEADERS
              /\ machine' = machine
              /\ auth' # auth =>
                    /\ call[c].pc = "swap"
                    /\ call[c].resp.status = 401
                    /\ auth[1].agent_key # 0
                    /\ auth'[1] = swap_keys(auth[1])
                    /\ call'[c].swaps = call[c].swaps + 1]_vars
    /\ [](\A c \in Callers :
              (call[c].pc \in {"returned", "raised"} /\ call[c].sent # <<>>) =>
                  (SignedBy(auth[1]) = call[c].sent[1] <=> call[c].swaps = 0))

\* A call that swapped a key has returned: the session is as constructed and
\* the credential signs with another source than at the start of the call.
C13_Witness ==
    /\ call[1].pc = "returned"
    /\ call[1].swaps = 1
    /\ SignedBy(auth[1]) # call[1].sent[1]
    /\ sessions[1].login = InitLogin(init_args.login)

\* A content type that declares JSON, with or without a charset parameter.
JsonDeclared(ctype) ==
    ctype \in {"application/json", "application/json; charset=UTF-8"}

\* C14: for a response request() returns, an empty body yields None, a body
\* declared as JSON (with or without a charset parameter) yields its
\* structured decode, and any other body is returned as the raw bytes.
C14_BodyDecoding ==
    \A c \in Callers : call[c].pc = "returned" =>
        LET r == call[c].resp
            body == call[c].result.body
        IN  IF r.content = "" THEN body = NoneV
            ELSE IF JsonDeclared(r.ctype)
                 THEN body = [t |-> "json", v |-> JsonLoads(r.content)]
                 ELSE body = [t |-> "raw", v |-> r.content]

\* Caller c's call has ended in the transport's exception.
TransportFailed(f) == f.pc = "raised" /\ f.result.kind = "TransportError"

\* C15: a transport failure propagates to the caller as it is. The step in
\* which the transport fails ends the call with that exception and changes
\* neither the credential nor the session; the failed request is the last one
\* of the call (each earlier one was answered 401 and followed by a swap, so
\* this covers a failure on the retry after a 401), and nothing is sent or
\* swapped afterwards until the caller makes a new call.
C15_TransportFailurePropagates ==
    /\ [][\A c \in Callers :
              /\ (call[c].pc = "dispatch" /\ call'[c].result.kind = "TransportError") =>
                    /\ call'[c].pc = "raised"
                    /\ Len(call'[c].sent) = Len(call[c].sent) + 1
                    /\ call'[c].swaps = call[c].swaps
                    /\ auth' = auth
                    /\ sessions' = sessions
                    /\ DEFAULT_HEADERS' = DEFAULT_HEADERS
              /\ TransportFailed(call[c]) =>
                    /\ auth' = auth
                    /\ call'[c] = call[c] \/ call'[c].sent = <<>>]_vars
    /\ [](\A c \in Callers :
              TransportFailed(call[c]) => Len(call[c].sent) = call[c].swaps + 1)

\* The transport has failed on the retry that followed a 401 and a swap.
C15_Witness ==
    /\ TransportFailed(call[1])
    /\ call[1].swaps = 1
    /\ Len(call[1].sent) = 2
    /\ call[1].sent[2] = SignedBy(auth[1])

-----------------------------------------------------------------------------
(* Claims about the single-request accessors, checked under SpecLookup.    *)

\* C16: dataset(identifier) given a dict with an urn key or an id key (either
\* alone suffices) raises no error while extracting the identifier and
\* requests datasets/<that key's value>.
C16_DatasetFromUrnOrId ==
    (lst.accessor = "dataset" /\ lst.args.identifier.t = "dict"
        /\ DOMAIN lst.args.identifier.v \cap {"urn", "id"} # {}) =>
        LET d == lst.args.identifier.v
        IN  /\ lst.result.kind # "KeyError"
            /\ Len(lst.reqs) = 1
            /\ lst.reqs[1].path[1] = "datasets"
            /\ lst.reqs[1].path[2] \in {d[k] : k \in DOMAIN d \cap {"urn", "id"}}

\* C17: package(name) given a dict with a name key requests
\* packages/<value of the name key>, whatever other keys the dict has.
C17_PackageFromNameKey ==
    (lst.accessor = "package" /\ lst.args.name.t = "dict"
        /\ "name" \in DOMAIN lst.args.name.v) =>
        /\ Len(lst.reqs) = 1
        /\ lst.reqs[1].path = <<"packages", lst.args.name.v["name"]>>

\* C18: networks(search=p) with the default fields returns exactly the listed
\* networks whose name p matches, whatever the case, each once and in the
\* server's order; without a search it returns the server's list as it is.
C18_NetworksSearchByName ==
    (lst.accessor = "networks" /\ lst.pc = "returned"
        /\ lst.args.fields = DefaultNetworkFields) =>
        IF lst.args.search = NoneV
        THEN lst.result.value = lst.args.j
        ELSE lst.result.value =
                SelectSeq(lst.args.j, LAMBDA d : Search(lst.args.search.v, d.name))

\* The keyword arguments machines() sees when called with the predicates a.
AsMachinesArgs(a) ==
    [o \in MachinesOptions |-> IF o \in DOMAIN a THEN a[o] ELSE Default(o)]

\* C19: the HEAD request of num_machines carries the query parameters that
\* machines() sends for the same predicates (none when there are none).
C19_CountsMatching ==
    (lst.accessor = "num_machines" /\ ~MachinesDatasetKeyError(AsMachinesArgs(lst.args))) =>
        /\ Len(lst.reqs) = 1
        /\ lst.reqs[1].method = "HEAD"
        /\ lst.reqs[1].params = MachinesParams(AsMachinesArgs(lst.args))

-----------------------------------------------------------------------------
(* Claims about the Machine's metadata calls, checked under SpecMetadata.  *)

\* The frame is that of one of the two delete methods.
IsDelete(f) == f.op \in {"delete_metadata_at_key", "delete_all_metadata"}

\* The request either delete method begins with.
DeleteOf(f) ==
    [method |-> "DELETE",
     path |-> IF f.op = "delete_all_metadata"
              THEN <<"machines", machine.id, "metadata">>
              ELSE <<"machines", machine.id, "metadata", f.key>>]

\* C20: delete_metadata_at_key and delete_all_metadata send the DELETE and
\* then a GET of the metadata, in that order and nothing else; when the call
\* returns the cached metadata is what that GET returned; when the DELETE
\* fails (transport failure, or a status of 400 or more) no GET is sent, the
\* call raises and the cached metadata is what it was before the call.
C20_DeleteThenGet ==
    /\ (mop.pc # "idle" /\ IsDelete(mop)) =>
          /\ Len(mop.reqs) \in {1, 2}
          /\ mop.reqs[1] = DeleteOf(mop)
          /\ Len(mop.reqs) = 2 =>
                mop.reqs[2] = [method |-> "GET",
                               path |-> <<"machines", machine.id, "metadata">>]
    /\ (mop.pc = "returned" /\ IsDelete(mop)) =>
          /\ Len(mop.reqs) = 2
          /\ machine.metadata = mop.got
    /\ (mop.pc # "idle" /\ IsDelete(mop)
           /\ (mop.statuses[1] = 0 \/ mop.statuses[1] >= 400)) =>
          /\ mop.pc = "raised"
          /\ Len(mop.reqs) = 1
          /\ machine.metadata = mop.before

\* Both outcomes: a delete has returned with metadata other than the cached
\* one was before, after two requests.
C20_Witness ==
    /\ mop.pc = "returned"
    /\ mop.op = "delete_metadata_at_key"
    /\ Len(mop.reqs) = 2
    /\ mop.before = [role |-> StrV("web")]
    /\ machine.metadata = EmptyDict

-----------------------------------------------------------------------------
(* Claims about Machine.poll_while, checked under SpecPollWhile.           *)

\* Some state the server reports differs from s.
ReportsOther(seq, s) == \E k \in 1..Len(seq) : seq[k] # s

\* The position of the first state of seq that differs from s.
FirstOtherAt(seq, s) ==
    CHOOSE k \in 1..Len(seq) : seq[k] # s /\ \A j \in 1..(k - 1) : seq[j] = s

\* C21: poll_while(s) returns at the first poll that fetches a state other
\* than s, after k polls and k - 1 sleeps, k the position of the first such
\* state in the server's sequence (1 poll and 0 sleeps when the first poll
\* already differs), with a cached state other than s; until then every
\* fetched state was s and each poll but the running one was followed by one
\* sleep.
C21_PollWhileReturnsAtFirstChange ==
    /\ poll.pc = "returned" =>
          /\ ReportsOther(server.states, poll.target)
          /\ poll.polls = FirstOtherAt(server.states, poll.target)
          /\ poll.sleeps = poll.polls - 1
          /\ machine.state # poll.target
          /\ machine.state = StateAt(server.states, poll.polls)
    /\ poll.pc = "sleep" =>
          /\ poll.sleeps = poll.polls - 1
          /\ \A j \in 1..poll.polls : StateAt(server.states, j) = poll.target
    /\ poll.pc = "poll" =>
          /\ poll.sleeps = poll.polls
          /\ \A j \in 1..poll.polls : StateAt(server.states, j) = poll.target

\* poll_while('provisioning') against provisioning, provisioning, running has
\* returned after 3 polls and 2 sleeps.
C21_Witness ==
    /\ server.states = <<StrV("provisioning"), StrV("provisioning"), StrV("running")>>
    /\ poll.op = "poll_while"
    /\ poll.target = StrV("provisioning")
    /\ poll.pc = "returned"
    /\ poll.polls = 3
    /\ poll.sleeps = 2
    /\ machine.state = StrV("running")

-----------------------------------------------------------------------------
(* Claims about the termination of Machine.poll_until, checked under       *)
(* SpecPollFair.                                                           *)

\* One of the polls made so far fetched the target state.
Observed == \E j \in 1..poll.polls : StateAt(server.states, j) = poll.target

\* C22 (as stated): poll_until(s) has no bound of its own on the number of
\* polls. Its call is over exactly when a poll has fetched s or a poll's
\* request has raised; while neither has happened the next poll or sleep is
\* always due (up to the MaxPolls polls a behaviour follows), so against a
\* server that never reports s and never fails it is still polling after any
\* number of polls. A call against a server that reports s ends. The step in
\* which a poll ends the call with an error leaves the cached attributes as
\* the last successful poll saved them.
C22_PollUntilUnbounded ==
    /\ [](poll.pc # "idle" =>
            (poll.pc \in {"returned", "raised"} <=> (Observed \/ mcall.outcome = "raised")))
    /\ [](poll.pc = "returned" => Observed)
    /\ []((poll.pc = "poll" /\ poll.polls < MaxPolls) => ENABLED poll_status)
    /\ [](poll.pc = "sleep" => ENABLED poll_sleep)
    /\ [][(poll'.pc = "raised" /\ poll.pc # "raised") => machine' = machine]_vars
    /\ (poll.pc = "poll" /\ Reports(server.states, poll.target))
          ~> (poll.pc \in {"returned", "raised"})

-----------------------------------------------------------------------------
(* Claims about the termination of machines(), checked under SpecListing.  *)

\* C23 (as stated): a non-paged machines() call whose requests are all
\* answered without error ends by returning its collected list, after
\* finitely many requests: it never ends in an error, for any resource count
\* and page size of the server.
C23_NonPagedTerminatesWithList ==
    (/\ lst.accessor = "machines"
     /\ ~Truthy(lst.args.paged)
     /\ lst.result.kind \notin {"HTTPError", "KeyError"})
        => /\ lst.pc # "raised"
           /\ Len(lst.reqs) <= PagesNeeded(server.count, lst.limit) + 1

-----------------------------------------------------------------------------
(* Claims about create_machine, checked under SpecCreate.                  *)

\* C24: create_machine never returns a Machine when the final response has a
\* status of 400 or above: for every such status, 499 and 500 included, the
\* call ends raised, and the step that ends it builds no Machine.
C24_CreateRaisesOnError ==
    /\ [](\A c \in Callers :
            (call[c].op = "create_machine" /\ call[c].resp.status >= 400)
                => call[c].pc # "create_returned")
    /\ [][\A c \in Callers :
            (/\ call[c].op = "create_machine" /\ call[c].pc = "returned"
             /\ call[c].resp.status >= 400)
                => (call'[c].pc = "create_raised" /\ machine' = machine)]_vars

\* request() let a 499 answer carrying a machine record through, and
\* create_machine raised for it.
C24_Witness ==
    /\ call[1].op = "create_machine"
    /\ call[1].pc = "create_raised"
    /\ call[1].resp.status = 499
    /\ call[1].resp.content = MachineDocument
    /\ call[1].resp.ctype = "application/json"
    /\ call[1].result.kind = "HTTPError"
    /\ machine = NoMachine

-----------------------------------------------------------------------------
(* Claims about the boot script, checked under SpecBootScript.             *)

\* C25: set_boot_script and delete_boot_script change the cached boot_script
\* only once the request has completed without raising, which it does for
\* exactly the statuses below 400: a call that raised (unreadable file,
\* transport failure, any status of 400 or more) leaves boot_script as it was
\* before the call; a call that returned leaves the uploaded text,
\* respectively None.
C25_BootScriptAfterSuccess ==
    mop.op \in {"set_boot_script", "delete_boot_script"} =>
        /\ mop.pc \in {"returned", "raised"}
        /\ mop.pc = "raised" <=>
               (mop.statuses = <<>> \/ mop.statuses[1] = 0 \/ mop.statuses[1] >= 400)
        /\ mop.pc = "raised" => machine.boot_script = mop.boot_before
        /\ mop.pc = "returned" =>
               machine.boot_script =
                   (IF mop.op = "set_boot_script" THEN mop.script ELSE NoneV)

\* A boot script s1 was replaced by the uploaded s3.
C25_Witness ==
    /\ mop.op = "set_boot_script"
    /\ mop.pc = "returned"
    /\ mop.statuses = <<200>>
    /\ mop.boot_before = StrV("s1")
    /\ mop.script = StrV("s3")
    /\ machine.boot_script = StrV("s3")

-----------------------------------------------------------------------------
(* Claims about authenticate(), checked under SpecAuthenticate.            *)

\* The step is an authenticate() call, the one logged last in auth_calls'.
AuthenticateStep == Len(auth_calls') = Len(auth_calls) + 1

\* C26: authenticate replaces the session's credential, by a new object,
\* exactly when key_id and secret are both given and non-empty; with either
\* missing the session keeps the credential it had, set or unset. No call
\* changes the session's location, login or default headers, or anything of
\* another session.
C26_AuthenticateReplacesOnlyCredential ==
    [][AuthenticateStep =>
         LET e == auth_calls'[Len(auth_calls')]
             s == e.session
         IN  /\ (Truthy(e.key_id) /\ Truthy(e.secret)) =>
                    /\ sessions'[s].auth # sessions[s].auth
                    /\ \A t \in DOMAIN sessions : sessions'[s].auth # sessions[t].auth
                    /\ sessions'[s].auth = MaxSessions + Len(auth_calls')
                    /\ e.signer.present
             /\ ~(Truthy(e.key_id) /\ Truthy(e.secret)) =>
                    sessions'[s].auth = sessions[s].auth
             /\ sessions' = [sessions EXCEPT ![s].auth = sessions'[s].auth]
             /\ auth' = auth
             /\ DEFAULT_HEADERS' = DEFAULT_HEADERS
             /\ KNOWN_LOCATIONS' = KNOWN_LOCATIONS]_vars

\* Both outcomes side by side is not one state; the witness is the call with
\* a key_id and no secret on a session that has a credential, which it keeps.
C26_Witness ==
    /\ Len(auth_calls) = 1
    /\ auth_calls[1].key_id = StrV("kid")
    /\ auth_calls[1].secret = NoneV
    /\ ~auth_calls[1].made
    /\ sessions[auth_calls[1].session].auth = auth_calls[1].session

-----------------------------------------------------------------------------
(* Claims about the default headers of several sessions, checked under     *)
(* SpecSession. Every session's default_headers names DEFAULT_HEADERS.     *)

\* C27 (as stated): default headers are isolated per session. The
\* construction of a session changes the default headers of no session that
\* exists already, so headers given to one session never appear in another,
\* and every session's X-Api-Version header is the API_VERSION of its own
\* class.
C27_HeadersIsolated ==
    /\ [](\A i \in DOMAIN sessions :
            DEFAULT_HEADERS["X-Api-Version"] = API_VERSION(sessions[i].cls))
    /\ [][(Len(sessions') = Len(sessions) + 1 /\ Len(sessions) >= 1)
            => DEFAULT_HEADERS' = DEFAULT_HEADERS]_vars

-----------------------------------------------------------------------------
(* Claims about the credential a derived session shares with its parent,   *)
(* checked under SpecShared.                                               *)

\* authenticate() has replaced the credential of session d or of its parent
\* since d was derived.
AuthenticatedSince(d) ==
    \E k \in DOMAIN auth_calls :
        /\ auth_calls[k].made
        /\ auth_calls[k].session \in {d, sessions[d].parent}
        /\ auth_calls[k].nsessions >= d

\* The step is caller c's swap of the credential source after a 401.
SwapStep(c) == call'[c].swaps = call[c].swaps + 1

\* C28: a derived session holds the very credential object of its parent
\* until authenticate() is called on one of the two. A swap made by a request
\* on either session is a swap of that one object: every session holding it
\* sees the swapped source, the object changes by swaps only, and every
\* request is signed with the current source of the object its session holds.
\* authenticate() on one session changes neither another session nor the
\* object it held before.
C28_SharedCredential ==
    /\ [](\A d \in DOMAIN sessions :
            (sessions[d].parent # 0 /\ ~AuthenticatedSince(d))
                => sessions[d].auth = sessions[sessions[d].parent].auth)
    /\ [][\A c \in Callers : SwapStep(c) =>
              \A t \in DOMAIN sessions :
                  sessions[t].auth = sessions[call[c].session].auth =>
                      /\ sessions'[t].auth = sessions[t].auth
                      /\ IF sessions[t].auth > MaxSessions
                         THEN auth_calls'[sessions[t].auth - MaxSessions].signer =
                                  swap_keys(Credential(sessions[t].auth))
                         ELSE auth'[sessions[t].auth] =
                                  swap_keys(Credential(sessions[t].auth))]_vars
    /\ [][\A i \in DOMAIN auth :
              auth'[i] # auth[i] =>
                  (\E c \in Callers : SwapStep(c)) /\ auth'[i] = swap_keys(auth[i])]_vars
    /\ [][\A c \in Callers :
              Len(call'[c].sent) = Len(call[c].sent) + 1 =>
                  call'[c].sent[Len(call'[c].sent)] = SignedBy(SelfAuth(c))]_vars
    /\ [][AuthenticateStep =>
              /\ \A t \in DOMAIN sessions \ {auth_calls'[Len(auth_calls')].session} :
                     sessions'[t] = sessions[t]
              /\ auth' = auth
              /\ SubSeq(auth_calls', 1, Len(auth_calls)) = auth_calls]_vars

\* The shared credential was swapped to the second agent key, the parent was
\* then given a new credential, and a later request on the derived session is
\* signed with the swapped source of the object the two had shared.
C28_Witness ==
    /\ Len(sessions) = 2
    /\ sessions[2].parent = 1
    /\ sessions[2].auth = 1
    /\ Len(auth_calls) = 1
    /\ auth_calls[1].session = 1 /\ auth_calls[1].made /\ auth_calls[1].nsessions = 2
    /\ sessions[1].auth = MaxSessions + 1
    /\ auth[1].agent_key = 2
    /\ call[1].session = 2
    /\ call[1].pc = "response"
    /\ call[1].swaps = 0
    /\ call[1].sent = <<[src |-> "agent", key |-> 2]>>

-----------------------------------------------------------------------------
(* Claims about two callers inside request() on one session, checked under *)
(* SpecRace.                                                               *)

\* A retry of caller c's call was signed with another source than the one
\* the call's own swap before it had swapped in.
ForeignRetry(c) ==
    \E k \in 1..call[c].swaps :
        /\ Len(call[c].sent) > k
        /\ call[c].sent[k + 1] # call[c].swapped[k]

\* C29: when two callers are inside request() on the same session and both
\* are answered 401, the swap can be applied twice before either retry is
\* sent, and a retry is then signed with a source other than the one its own
\* call swapped in (the witness). This happens only to a call that another
\* caller's call overlapped: with the calls strictly one after the other no
\* retry is signed with a foreign source.
C29_ForeignRetryNeedsOverlap ==
    \A c \in Callers : ForeignRetry(c) => call[c].overlapped

\* Both callers were answered 401 to a request signed with agent key 1 and
\* both swapped, the first to key 2, the second to key 3, before either
\* retried; the first caller's retry is signed with key 3.
C29_Witness ==
    /\ call[1].swaps = 1 /\ call[2].swaps = 1
    /\ call[1].swapped = <<[src |-> "agent", key |-> 2]>>
    /\ call[2].swapped = <<[src |-> "agent", key |-> 3]>>
    /\ call[1].sent = <<[src |-> "agent", key |-> 1], [src |-> "agent", key |-> 3]>>
    /\ call[2].sent = <<[src |-> "agent", key |-> 1]>>
    /\ call[2].pc = "dispatch"
    /\ ForeignRetry(1)

-----------------------------------------------------------------------------
(* Claims about a Machine's identity, checked under SpecMachineId.         *)

\* The path begins with machines/<id>.
UnderMachine(p, id) == Len(p) >= 2 /\ SubSeq(p, 1, 2) = <<"machines", id>>

\* C30: a Machine's id and its datacenter reference are fixed at
\* construction: no step changes them, whatever id the fetched records carry,
\* and the path of every request the Machine issues, fetches included, begins
\* with machines/<that id>.
C30_IdFixed ==
    /\ [][machine'.id = machine.id /\ machine'.datacenter = machine.datacenter]_vars
    /\ [](\A i \in DOMAIN mop.reqs : UnderMachine(mop.reqs[i].path, machine.id))
    /\ [](mcall.path # <<>> => UnderMachine(mcall.path, machine.id))

\* The Machine m1 has saved a fetched record that carries the id m2, and has
\* since sent a request under machines/m1.
C30_Witness ==
    /\ machine.id = "m1"
    /\ mcall.outcome = "ok"
    /\ mcall.path = <<"machines", "m1">>
    /\ "id" \in DOMAIN mcall.data
    /\ mcall.data["id"] = StrV("m2")
    /\ machine.state = mcall.data["state"]
    /\ mop.pc = "returned"
    /\ mop.reqs = <<[method |-> "POST", path |-> <<"machines", "m1">>]>>

====
